---- MODULE Spec2Model ----
(***************************************************************************)
(* streamdeck-vextm: the Stream Deck plugin that drives VEX Tournament     *)
(* Manager.  The module models                                             *)
(*   - the wire codec of the binary-protocol engine (tm_websocket.js):     *)
(*     _mangle / _unmangle,                                               *)
(*   - the engine itself (class VexTMWebsocket): its match state, the      *)
(*     notice interpreter _messageHandler, the command facade, and the     *)
(*     connection path _send / _connectWebsocket / _authenticate,          *)
(*   - the retry loop of the cookie-authenticated plugin main              *)
(*     (us.johnholbrook.vextm.sdPlugin/plugin_node/main.js),               *)
(*   - the settings handler of the API-key plugin main                     *)
(*     (plugin_node/main.js).                                              *)
(* Each part has its own specification (SpecCodec, SpecEngine, SpecConn,   *)
(* SpecMain, SpecApi; SpecFraming joins the codec and the engine) over the *)
(* one set of variables; a part that is not under study in a specification *)
(* keeps its initial value there.  SpecPure runs the engine's other pure   *)
(* functions on drawn inputs; SpecInbound, SpecFaults, SpecReconnect,      *)
(* SpecSession and SpecDisplay are SpecEngine, SpecMain or SpecConn with   *)
(* the environment a group of claims is about.                             *)
(***************************************************************************)
EXTENDS Integers, Sequences, FiniteSets, TLC

VARIABLES
    codec,                      \* the codec harness: [pc, data, magic_number, mangled_data, unmangled_data]
    harness,                    \* a call of one of the engine's other pure functions: [fn, pc, arg, result]
    \* ---- class VexTMWebsocket: connection fields, one value per engine object ----
    cookie,                     \* this.cookie / this.cookie_expiration: "none" | "fresh" | "expired"
    websocket,                  \* this.websocket: 0 (undefined / null) or the id of a socket
    fs_request,                 \* this.fs_request is loaded (non-null)
    onMatchInfoChangeCallback,  \* this.onMatchInfoChangeCallback is set
    onCloseCallback,            \* this.onCloseCallback is set
    \* ---- class VexTMWebsocket: match state of the engine the plugin references ----
    currentFieldId,             \* this.currentFieldId
    matchRunning,               \* this.matchRunning
    currentMatch,               \* this.currentMatch
    currentState,               \* this.currentState
    currentMatchTime,           \* this.currentMatchTime
    currentDisplay,             \* this.currentDisplay
    fieldList,                  \* this.fieldList
    \* ---- the environment of the engine ----
    sockets,                    \* the WebSocket objects created so far: sequence of
                                \*   [owner, readyState, handshakes, early]
    tasks,                      \* _connectWebsocket calls suspended at an await
    wire,                       \* the frames handed to websocket.send in the last turn, in order
    \* ---- observers ----
    emitted,                    \* the snapshots passed to the change callback in the last turn
    thrown,                     \* the exception the last turn ended with ("none" when it did not throw)
    lastCall,                   \* the facade call (or the notice, or the Stream Deck event)
                                \*   of the last turn, with the state it was made in
    startPair,                  \* observer of consecutive start() calls
    \* ---- the plugin mains ----
    main,                       \* cookie-authenticated main.js: [tm_conn_established, TM, actions,
                                \*   engines, handlers, getGlobalSettings]
    api                         \* API-key main.js: [tm_conn_established, tm_fs, tm_fs_conn, fields,
                                \*   handlers, thrown]

codecVars == <<codec, harness>>
connVars  == <<cookie, websocket, fs_request, sockets, tasks>>
matchVars == <<currentFieldId, matchRunning, currentMatch, currentState,
               currentMatchTime, currentDisplay, fieldList>>
cbVars    == <<onMatchInfoChangeCallback, onCloseCallback>>
obsVars   == <<wire, emitted, thrown, lastCall, startPair>>
engineVars == <<connVars, matchVars, cbVars, obsVars>>
vars == <<codecVars, engineVars, main, api>>

NULL == "null"

(***************************************************************************)
(* Bounds of the model.                                                    *)
(***************************************************************************)
\* longest plaintext drawn over ByteSample
MaxDataLen == 2
\* field ids 0..MaxFieldId
MaxFieldId == 1

(***************************************************************************)
(* Bytes and JavaScript's ^ on bytes.                                      *)
(***************************************************************************)
Byte == 0..255

RECURSIVE XorBits(_, _, _)
XorBits(a, b, n) ==
    IF n = 0 THEN 0
    ELSE (((a % 2) + (b % 2)) % 2) + (2 * XorBits(a \div 2, b \div 2, n - 1))

\* a ^ b stored into a Buffer cell (8 bits)
Xor(a, b) == XorBits(a % 256, b % 256, 8)

\* the constant both directions XOR the key byte with
MangleKey == 229
\* _mangle's default magic_number
DefaultMagic == 123

\* Buffer.alloc(n): n zero bytes
BufferAlloc(n) == [i \in 1..n |-> 0]

(***************************************************************************)
(* _mangle(data, magic_number = 123): mangled_data = Buffer.alloc(         *)
(* data.length + 1); mangled_data[0] = magic_number ^ 229; then for        *)
(* i = 1 .. mangled_data.length - 1: mangled_data[i] = data[i-1] ^         *)
(* magic_number.  Sequences are 1-based: cell i of the code is cell i + 1. *)
(***************************************************************************)
RECURSIVE MangleLoop(_, _, _, _)
MangleLoop(mangled_data, data, magic_number, i) ==
    IF i < Len(mangled_data)
    THEN MangleLoop([mangled_data EXCEPT ![i + 1] = Xor(data[i], magic_number)],
                    data, magic_number, i + 1)
    ELSE mangled_data

\* the slip "the key byte is written as it is"
_mangleKeepsKey(data, magic_number) ==
    MangleLoop([BufferAlloc(Len(data) + 1) EXCEPT ![1] = magic_number % 256],
               data, magic_number, 1)

_mangle(data, magic_number) ==
    MangleLoop([BufferAlloc(Len(data) + 1) EXCEPT ![1] = Xor(magic_number, MangleKey)],
               data, magic_number, 1)

(***************************************************************************)
(* _unmangle(raw_data): magic_number = raw_data[0] ^ 229; unmangled_data = *)
(* Buffer.alloc(raw_data.length - 1); for i = 1 .. raw_data.length - 1:    *)
(* unmangled_data[i-1] = raw_data[i] ^ magic_number.                       *)
(* (Applied to frames of at least one byte.)                               *)
(***************************************************************************)
RECURSIVE UnmangleLoop(_, _, _, _)
UnmangleLoop(unmangled_data, raw_data, magic_number, i) ==
    IF i < Len(raw_data)
    THEN UnmangleLoop([unmangled_data EXCEPT ![i] = Xor(raw_data[i + 1], magic_number)],
                      raw_data, magic_number, i + 1)
    ELSE unmangled_data

\* the slip "the key byte is read as it is"
_unmangleRawKey(raw_data) ==
    UnmangleLoop(BufferAlloc(Len(raw_data) - 1), raw_data, raw_data[1] % 256, 1)

_unmangle(raw_data) ==
    UnmangleLoop(BufferAlloc(Len(raw_data) - 1), raw_data, Xor(raw_data[1], MangleKey), 1)

(***************************************************************************)
(* The codec harness: a plaintext and a key are drawn, _mangle is applied, *)
(* then _unmangle to its result.                                           *)
(***************************************************************************)
ByteSample == {0, 1, 123, 128, 229, 255}

RECURSIVE SeqsUpTo(_, _)
SeqsUpTo(S, n) ==
    IF n = 0 THEN {<<>>}
    ELSE LET shorter == SeqsUpTo(S, n - 1)
         IN  shorter \cup {Append(q, x) : q \in {r \in shorter : Len(r) = n - 1}, x \in S}

\* every one-byte plaintext, and the plaintexts over ByteSample up to MaxDataLen
DataInputs == {<<b>> : b \in Byte} \cup SeqsUpTo(ByteSample, MaxDataLen)

CodecOff == [pc |-> "off", data |-> <<>>, magic_number |-> 0,
             mangled_data |-> <<>>, unmangled_data |-> <<>>]

CodecInput(d, k) == [pc |-> "input", data |-> d, magic_number |-> k,
                     mangled_data |-> <<>>, unmangled_data |-> <<>>]

Mangle ==
    /\ codec.pc = "input"
    /\ codec' = [codec EXCEPT !.pc = "mangled",
                              !.mangled_data = _mangle(codec.data, codec.magic_number)]

Unmangle ==
    /\ codec.pc = "mangled"
    /\ codec' = [codec EXCEPT !.pc = "unmangled",
                              !.unmangled_data = _unmangle(codec.mangled_data)]


(***************************************************************************)
(* The harness of the engine's other pure functions: an argument is drawn, *)
(* the function is applied to it.                                          *)
(***************************************************************************)
HarnessOff == [fn |-> "none", pc |-> "off", arg |-> <<>>, result |-> <<>>]

HarnessInput(fn, arg) == [fn |-> fn, pc |-> "input", arg |-> arg, result |-> <<>>]

(***************************************************************************)
(* _generateHandshake().  The clock value Math.floor(Date.now() / 1000) is *)
(* held as its two 16-bit halves, [hi, lo] standing for hi * 65536 + lo.   *)
(* unixTime is its toString(16): the hexadecimal digits with no leading    *)
(* zero.  hs = new Uint8Array(128); hs[7] = parseInt(unixTime.slice(6, 8), *)
(* 16), hs[8] from slice(4, 6), hs[9] from slice(2, 4), hs[10] from        *)
(* slice(0, 2).  slice past the end gives a shorter or empty string,       *)
(* parseInt of the empty string is NaN, and NaN is stored as 0.            *)
(***************************************************************************)
\* parseInt of these strings is never negative: -1 stands for NaN
NaN == -1

RECURSIVE HexDigits(_)
HexDigits(n) == IF n < 16 THEN <<n>> ELSE Append(HexDigits(n \div 16), n % 16)

\* the four hexadecimal digits of a 16-bit half
HexPad4(n) == <<n \div 4096, (n \div 256) % 16, (n \div 16) % 16, n % 16>>

\* Number.prototype.toString(16)
ToStringHex(t) == IF t.hi = 0 THEN HexDigits(t.lo) ELSE HexDigits(t.hi) \o HexPad4(t.lo)

\* String.prototype.slice(a, b) for 0 <= a <= b
Slice(str, a, b) ==
    LET end == IF b < Len(str) THEN b ELSE Len(str)
    IN  [i \in 1..(end - a) |-> str[a + i]]

RECURSIVE HexValue(_)
HexValue(str) ==
    IF str = <<>> THEN 0
    ELSE (16 * HexValue(SubSeq(str, 1, Len(str) - 1))) + str[Len(str)]

\* parseInt(str, 16) of a string of hexadecimal digits
ParseIntHex(str) == IF str = <<>> THEN NaN ELSE HexValue(str)

\* storing a value into a Uint8Array cell
Uint8Store(v) == IF v = NaN THEN 0 ELSE v % 256

_generateHandshake(now) ==
    LET unixTime == ToStringHex(now)
        hs == [i \in 1..128 |-> 0]
    IN  [hs EXCEPT ![8]  = Uint8Store(ParseIntHex(Slice(unixTime, 6, 8))),
                   ![9]  = Uint8Store(ParseIntHex(Slice(unixTime, 4, 6))),
                   ![10] = Uint8Store(ParseIntHex(Slice(unixTime, 2, 4))),
                   ![11] = Uint8Store(ParseIntHex(Slice(unixTime, 0, 2)))]

\* the clock values drawn: both halves over the same sample of 16-bit values
HalfSample == {0, 1, 15, 16, 255, 256, 4095, 4096, 27374, 65535}

ClockSample == {[hi |-> h, lo |-> l] : h \in HalfSample, l \in HalfSample}

GenerateHandshake ==
    /\ harness.fn = "_generateHandshake"
    /\ harness.pc = "input"
    /\ harness' = [harness EXCEPT !.pc = "returned",
                                  !.result = _generateHandshake(harness.arg)]
    /\ UNCHANGED <<codec, engineVars, main, api>>

(***************************************************************************)
(* class VexTMWebsocket: the state the constructor leaves.                 *)
(***************************************************************************)
\* engine objects the plugin main may construct
MaxEngines == 3
Engines == 1..MaxEngines

\* this.currentFieldId = null
NoFieldId == -1

\* this.fieldList: null, or an object from field ids to names
NullFieldList == [isNull |-> TRUE, names |-> <<>>]

FieldIds == 0..MaxFieldId

\* a change snapshot's "field" when fieldList has no such key
UNDEFINED == "undefined"

(***************************************************************************)
(* _buildMatchName(match): the name of a V3MatchTuple as TM displays it.   *)
(***************************************************************************)
elim_rounds == {"R128", "R64", "R32", "R16", "QF", "SF", "F"}

\* a variant that numbers practice matches
_buildMatchNamePractice(match) ==
    IF match.round = "QUAL" THEN "Q" \o ToString(match.match)
    ELSE IF match.round \in elim_rounds
         THEN match.round \o " " \o ToString(match.instance) \o "-" \o ToString(match.match)
    ELSE IF match.round = "TOP_N" THEN "F " \o ToString(match.match)
    ELSE IF match.round = "PRACTICE" THEN "P" \o ToString(match.match)
    ELSE IF match.round = "TIMEOUT" THEN "TO"
    ELSE IF match.round = "SKILLS"
         THEN (IF match.instance = 2 THEN "D Skills" ELSE "A Coding")
    ELSE "OTHER"

_buildMatchName(match) ==
    IF match.round = "QUAL" THEN "Q" \o ToString(match.match)
    ELSE IF match.round \in elim_rounds
         THEN match.round \o " " \o ToString(match.instance) \o "-" \o ToString(match.match)
    ELSE IF match.round = "TOP_N" THEN "F " \o ToString(match.match)
    ELSE IF match.round = "PRACTICE" THEN "P0"
    ELSE IF match.round = "TIMEOUT" THEN "TO"
    ELSE IF match.round = "SKILLS"
         THEN (IF match.instance = 2 THEN "D Skills" ELSE "A Coding")
    ELSE "OTHER"

\* the match identities drawn: every round _buildMatchName names, and others
RoundSample ==
    {"QUAL", "TOP_N", "PRACTICE", "TIMEOUT", "SKILLS"} \cup elim_rounds
        \cup {"NONE", "ROUND_ROBIN", ""}

MatchSample ==
    {[round |-> r, instance |-> i, match |-> n] : r \in RoundSample, i \in 0..3, n \in 0..2}

BuildMatchName ==
    /\ harness.fn = "_buildMatchName"
    /\ harness.pc = "input"
    /\ harness' = [harness EXCEPT !.pc = "returned",
                                  !.result = _buildMatchName(harness.arg)]
    /\ UNCHANGED <<codec, engineVars, main, api>>

(***************************************************************************)
(* The notices the server pushes, as fs_notice.decode returns them: id,    *)
(* fieldId (0 when the notice carries none), match (NoMatch when absent),  *)
(* remaining, fields.                                                      *)
(***************************************************************************)
NoMatch == [round |-> "", instance |-> 0, match |-> 0]

QueuedRounds == {"QUAL", "TIMEOUT", "SKILLS"}
QueuedMatches ==
    {[round |-> r, instance |-> i, match |-> 1] : r \in QueuedRounds \ {"SKILLS"}, i \in {1}}
    \cup {[round |-> "SKILLS", instance |-> i, match |-> 1] : i \in {1, 2}}

RemainingSamples == {15, 60}

\* the names the server gives its fields
ServerFieldName(id) == "Field " \o ToString(id)

\* field lists the server may send: every field, with or without an entry for id 0
ServerFieldLists ==
    {[id \in D |-> ServerFieldName(id)] : D \in {1..MaxFieldId, 0..MaxFieldId}}

Notice(id, fieldId, match, remaining, fields) ==
    [id |-> id, fieldId |-> fieldId, match |-> match, remaining |-> remaining, fields |-> fields]

Notices ==
    {Notice(8, f, m, 0, <<>>) : f \in FieldIds, m \in QueuedMatches \cup {NoMatch}}
    \cup {Notice(id, f, NoMatch, 0, <<>>) : id \in {1, 2, 5, 3, 14}, f \in FieldIds}
    \cup {Notice(6, 0, NoMatch, r, <<>>) : r \in RemainingSamples}
    \cup {Notice(13, 0, NoMatch, 0, fl) : fl \in ServerFieldLists}

(***************************************************************************)
(* _messageHandler, "match started": the timing phase from the match name  *)
(* and the remaining time the engine holds.                                *)
(***************************************************************************)
\* a variant that looks at the remaining time first
StartedStateTimeFirst(name, time) ==
    IF time \in {15, 14, 45, 44} THEN "AUTO"
    ELSE IF name = "TO" THEN "TIMEOUT"
    ELSE IF time \in {60, 59}
         THEN (IF name = "A Coding" THEN "AUTO" ELSE "DRIVER")
    ELSE "DRIVER"

StartedState(name, time) ==
    IF name = "TO" THEN "TIMEOUT"
    ELSE IF time \in {15, 14, 45, 44} THEN "AUTO"
    ELSE IF time \in {60, 59}
         THEN (IF name = "A Coding" THEN "AUTO" ELSE "DRIVER")
    ELSE "DRIVER"

\* {0: "N/A", ...decoded.fields}: the spread's keys override the literal's
FieldListFrom(fields) ==
    [isNull |-> FALSE,
     names  |-> [id \in {0} \cup DOMAIN fields |->
                    IF id \in DOMAIN fields THEN fields[id] ELSE "N/A"]]

\* the match state as one record
MatchState ==
    [currentFieldId |-> currentFieldId, matchRunning |-> matchRunning,
     currentMatch |-> currentMatch, currentState |-> currentState,
     currentMatchTime |-> currentMatchTime, currentDisplay |-> currentDisplay,
     fieldList |-> fieldList]

ConstructedMatchState ==
    [currentFieldId |-> NoFieldId, matchRunning |-> FALSE, currentMatch |-> NULL,
     currentState |-> NULL, currentMatchTime |-> 0, currentDisplay |-> NULL,
     fieldList |-> NullFieldList]

(***************************************************************************)
(* _messageHandler(message): the assignments made for a decoded notice.    *)
(***************************************************************************)
StartedKeepsRunning(m, decoded) ==
    [m EXCEPT !.currentState = StartedState(m.currentMatch, m.currentMatchTime),
              !.currentFieldId = decoded.fieldId]

\* a variant of "match started" that leaves the field id alone
MatchStartedKeepsField(m, decoded) ==
    [m EXCEPT !.matchRunning = TRUE,
              !.currentState = StartedState(m.currentMatch, m.currentMatchTime)]

MatchStarted(m, decoded) ==
    [m EXCEPT !.matchRunning = TRUE,
              !.currentState = StartedState(m.currentMatch, m.currentMatchTime),
              !.currentFieldId = decoded.fieldId]

FieldListNotice(m, decoded) == [m EXCEPT !.fieldList = FieldListFrom(decoded.fields)]

\* a variant of "match queued" that takes the field id as it comes
MatchQueuedNamesOnly(m, decoded) ==
    [m EXCEPT !.currentMatch = IF decoded.match # NoMatch
                               THEN _buildMatchName(decoded.match) ELSE "NONE"]

\* decoded.id == 8, match queued
MatchQueued(m, decoded) ==
    [m EXCEPT !.currentFieldId = IF decoded.fieldId # 0 THEN decoded.fieldId ELSE 0,
              !.currentMatch = IF decoded.match # NoMatch
                               THEN _buildMatchName(decoded.match) ELSE "NONE"]

\* a variant of "match stopped" that clears the remaining time
MatchStoppedClearsTime(m, decoded) ==
    [m EXCEPT !.matchRunning = FALSE, !.currentFieldId = decoded.fieldId,
              !.currentState = "DSBL", !.currentMatchTime = 0]

\* decoded.id == 2 || decoded.id == 5, match stopped or aborted
MatchStopped(m, decoded) ==
    [m EXCEPT !.matchRunning = FALSE, !.currentFieldId = decoded.fieldId,
              !.currentState = "DSBL"]

\* a variant of "match paused" that forgets the queued match
MatchPausedForgetsMatch(m, decoded) ==
    [m EXCEPT !.matchRunning = FALSE, !.currentFieldId = decoded.fieldId,
              !.currentState = "PAUSED", !.currentMatch = NULL]

\* decoded.id == 3, match paused
MatchPaused(m, decoded) ==
    [m EXCEPT !.matchRunning = FALSE, !.currentFieldId = decoded.fieldId,
              !.currentState = "PAUSED"]

\* a variant of "time updated" with the assignment the source leaves commented out
TimeUpdatedRunning(m, decoded) ==
    [m EXCEPT !.currentState = "RUNNING", !.currentMatchTime = decoded.remaining]

\* decoded.id == 6, time updated
TimeUpdated(m, decoded) == [m EXCEPT !.currentMatchTime = decoded.remaining]

\* decoded.id == 14, FIELD_ACTIVATED
FieldActivated(m, decoded) == [m EXCEPT !.currentFieldId = decoded.fieldId]

Interpret(m, decoded) ==
    IF decoded.id = 8 THEN MatchQueued(m, decoded)
    ELSE IF decoded.id = 1 THEN MatchStarted(m, decoded)
    ELSE IF decoded.id = 2 \/ decoded.id = 5 THEN MatchStopped(m, decoded)
    ELSE IF decoded.id = 3 THEN MatchPaused(m, decoded)
    ELSE IF decoded.id = 6 THEN TimeUpdated(m, decoded)
    ELSE IF decoded.id = 13 THEN FieldListNotice(m, decoded)
    ELSE IF decoded.id = 14 THEN FieldActivated(m, decoded)
    ELSE m

\* the match names and remaining times a "match started" notice may find
NameSample == {_buildMatchName(m) : m \in MatchSample} \cup {"NONE", NULL}

TimeSample == {0, 13, 14, 15, 16, 30, 43, 44, 45, 46, 58, 59, 60, 61, 105, 120}

\* _messageHandler on a "match started" notice, in an engine holding a drawn
\* match name and remaining time; the result is the state it leaves
MatchStartedNotice ==
    /\ harness.fn = "_messageHandler"
    /\ harness.pc = "input"
    /\ harness' = [harness EXCEPT
          !.pc = "returned",
          !.result = Interpret([ConstructedMatchState EXCEPT
                                    !.currentMatch = harness.arg.currentMatch,
                                    !.currentMatchTime = harness.arg.currentMatchTime],
                               Notice(1, harness.arg.fieldId, NoMatch, 0, <<>>))]
    /\ UNCHANGED <<codec, engineVars, main, api>>

\* the notices after which _messageHandler calls _whenMatchInfoChanged
StateAffecting == {8, 1, 2, 5, 3, 6, 14}

(***************************************************************************)
(* _whenMatchInfoChanged(): the snapshot handed to the change callback.    *)
(* Reading this.fieldList[...] of a null fieldList, or calling a null      *)
(* callback, throws a TypeError.                                           *)
(***************************************************************************)
FieldName(fl, id) == IF id \in DOMAIN fl.names THEN fl.names[id] ELSE UNDEFINED

Snapshot(m) ==
    [match |-> m.currentMatch, state |-> m.currentState, time |-> m.currentMatchTime,
     isRunning |-> m.matchRunning, field |-> FieldName(m.fieldList, m.currentFieldId)]

WhenMatchInfoChangedThrows(e, m) == m.fieldList.isNull \/ ~onMatchInfoChangeCallback[e]


(***************************************************************************)
(* FieldSetRequest messages, as _sendFCRequest, _queueMatch and            *)
(* _setActiveFieldRequest build them, and their plaintext                  *)
(* fs_request.encode(msg).finish().  The schema, fieldset.proto, is not    *)
(* among the sources: the plaintext is laid out one byte per part,         *)
(* <<variant, value>> followed by the field id when the message holds one  *)
(* (a null fieldId is not encoded).                                        *)
(***************************************************************************)
FieldControl(value, fieldId) == [variant |-> "fieldControl", value |-> value, fieldId |-> fieldId]
QueueMatch(type) == [variant |-> "queueMatch", value |-> type, fieldId |-> NoFieldId]
SetActive(id) == [variant |-> "setActive", value |-> 0, fieldId |-> id]

Requests ==
    {FieldControl(v, f) : v \in 0..4, f \in FieldIds \cup {NoFieldId}}
    \cup {QueueMatch(t) : t \in 1..3}
    \cup {SetActive(f) : f \in FieldIds}

VariantTag(variant) ==
    CASE variant = "fieldControl" -> 1
      [] variant = "setActive"    -> 2
      [] variant = "queueMatch"   -> 3

Encode(msg) ==
    <<VariantTag(msg.variant), msg.value>>
        \o (IF msg.fieldId = NoFieldId THEN <<>> ELSE <<msg.fieldId>>)

\* _sendFSRequest(msg): the frame handed to _send, mangled with the default magic number
RequestFrames == [msg \in Requests |-> _mangle(Encode(msg), DefaultMagic)]

RequestFrame(msg) == RequestFrames[msg]

(***************************************************************************)
(* The connection path.  A WebSocket object is [owner, readyState], with   *)
(* what it has transmitted so far: handshakes, the handshake frames (0, 1, *)
(* or 2 for two and more), and early, whether a request frame went out     *)
(* before any handshake.  A suspended _connectWebsocket call is a task:    *)
(* whose engine it runs on,                                                *)
(* who awaits it ("send": _send with its frame, "init": init()), where it  *)
(* is suspended ("auth": in _authenticate, "load": in protobuf.load),      *)
(* its force flag, and the cookie it found ("fresh", or "none" / "expired"  *)
(* when it went through _authenticate).                                    *)
(***************************************************************************)
\* WebSocket objects created in a behaviour
MaxSockets == 2
\* _connectWebsocket calls suspended at one time
MaxTasks == 2

Handshake == <<>>     \* the log keeps a handshake's kind, not its 128 bytes

Task(e, kind, pc, force, data, found) ==
    [eng |-> e, kind |-> kind, pc |-> pc, force |-> force, data |-> data, found |-> found]

\* the frame as websocket.send receives it, with the socket's readyState at that moment
Handed(socks, s, kind, data, found) ==
    [sock |-> s, readyState |-> socks[s].readyState, kind |-> kind, data |-> data,
     found |-> found]

RemoveAt(q, i) == [j \in 1..(Len(q) - 1) |-> IF j < i THEN q[j] ELSE q[j + 1]]

\* new WebSocket(...)
NewSocket(e) == [owner |-> e, readyState |-> "CONNECTING", handshakes |-> 0, early |-> FALSE]

\* websocket.send on socket s, n times in one turn: an open socket transmits
Transmit(socks, s, kind, n) ==
    IF n = 0 \/ socks[s].readyState # "OPEN" THEN socks
    ELSE IF kind = "handshake"
    THEN [socks EXCEPT ![s].handshakes = IF @ + n < 2 THEN @ + n ELSE 2]
    ELSE [socks EXCEPT ![s].early = @ \/ socks[s].handshakes = 0]

\* websocket.close(1000) on socket s: a connecting or open socket starts closing
CloseSocket(socks, s) ==
    IF s # 0 /\ socks[s].readyState \in {"CONNECTING", "OPEN"}
    THEN [socks EXCEPT ![s].readyState = "CLOSING"]
    ELSE socks

(***************************************************************************)
(* _send(data), for the frames one turn hands to it: each call runs        *)
(* _connectWebsocket() up to its first await.  With the cookie missing or  *)
(* expired every call starts an _authenticate of its own; with a fresh     *)
(* cookie and a websocket set the call returns and websocket.send(data)    *)
(* follows in the same turn; with no websocket the call waits for          *)
(* protobuf.load.  socks are the sockets as the turn has left them.        *)
(***************************************************************************)
\* a variant whose _connectWebsocket does not look at the cookie
_sendUnchecked(socks, e, kind, frames) ==
    IF websocket[e] # 0
    THEN /\ wire' = [i \in DOMAIN frames |->
                               Handed(socks, websocket[e], kind, frames[i], cookie[e])]
         /\ sockets' = Transmit(socks, websocket[e], kind, Len(frames))
         /\ UNCHANGED tasks
    ELSE /\ tasks' = tasks \o [i \in DOMAIN frames |->
                                  Task(e, "send", "load", FALSE,
                                       [kind |-> kind, data |-> frames[i]], cookie[e])]
         /\ wire' = <<>>
         /\ sockets' = socks

_send(socks, e, kind, frames) ==
    IF cookie[e] # "fresh"
    THEN /\ tasks' = tasks \o [i \in DOMAIN frames |->
                                  Task(e, "send", "auth", FALSE,
                                       [kind |-> kind, data |-> frames[i]], cookie[e])]
         /\ wire' = <<>>
         /\ sockets' = socks
    ELSE IF websocket[e] # 0
    THEN /\ wire' = [i \in DOMAIN frames |->
                               Handed(socks, websocket[e], kind, frames[i], "fresh")]
         /\ sockets' = Transmit(socks, websocket[e], kind, Len(frames))
         /\ UNCHANGED tasks
    ELSE /\ tasks' = tasks \o [i \in DOMAIN frames |->
                                  Task(e, "send", "load", FALSE,
                                       [kind |-> kind, data |-> frames[i]], "fresh")]
         /\ wire' = <<>>
         /\ sockets' = socks


(***************************************************************************)
(* Observers.  emitted, thrown and lastCall describe the last turn of the  *)
(* event loop; startPair follows start() calls that come one after the     *)
(* other, with at most a match-started notice between them.                *)
(***************************************************************************)
NoNotice == Notice(0, 0, NoMatch, 0, <<>>)

NoCall == [op |-> "none", running |-> FALSE, fieldId |-> NoFieldId, msgs |-> <<>>,
           frames |-> <<>>, notice |-> 0, decoded |-> NoNotice, display |-> NULL,
           settings |-> 0]

\* a turn in which _messageHandler processed this notice
Notified(decoded) ==
    [NoCall EXCEPT !.op = "_messageHandler", !.notice = decoded.id, !.decoded = decoded]

\* a facade call, the state it was made in, the messages it gave to
\* _sendFSRequest and the frames that handed to _send
Call(op, msgs, frames) ==
    [op |-> op, running |-> matchRunning, fieldId |-> currentFieldId, msgs |-> msgs,
     frames |-> frames, notice |-> 0, decoded |-> NoNotice, display |-> NULL,
     settings |-> 0]

NoStartPair == [stage |-> 0, sent1 |-> 0, started |-> FALSE, sent2 |-> 0]

ObserveStart(n) ==
    IF startPair.stage = 1
    THEN [startPair EXCEPT !.stage = 2, !.sent2 = n]
    ELSE [stage |-> 1, sent1 |-> n, started |-> FALSE, sent2 |-> 0]

ObserveNotice(id) ==
    IF id = 1 /\ startPair.stage = 1 /\ ~startPair.started
    THEN [startPair EXCEPT !.started = TRUE]
    ELSE NoStartPair

(***************************************************************************)
(* The command facade.  A command builds its FieldSetRequest messages,     *)
(* _sendFSRequest encodes and mangles each (a TypeError while fs_request   *)
(* is null, before anything is sent or assigned) and hands it to _send.    *)
(***************************************************************************)
Issue(e, op, msgs, fieldIdAfter) ==
    LET frames == [i \in DOMAIN msgs |-> RequestFrame(msgs[i])]
    IN  /\ emitted' = <<>>
        /\ IF msgs # <<>> /\ ~fs_request[e]
           THEN /\ thrown' = "TypeError"
                /\ lastCall' = Call(op, <<>>, <<>>)
                /\ wire' = <<>>
                /\ UNCHANGED <<tasks, sockets, currentFieldId>>
           ELSE /\ thrown' = "none"
                /\ lastCall' = Call(op, msgs, frames)
                /\ _send(sockets, e, "request", frames)
                /\ currentFieldId' = fieldIdAfter
        /\ UNCHANGED <<cookie, websocket, fs_request, cbVars, matchRunning,
                       currentMatch, currentState, currentMatchTime, currentDisplay,
                       fieldList, codecVars, main, api>>

\* the number of frames a command with these messages hands to _send
Sends(e, msgs) == IF fs_request[e] THEN Len(msgs) ELSE 0

\* start(): if (!this.matchRunning) this._sendFCRequest(1)
StartUnguarded == <<FieldControl(1, currentFieldId)>>

StartRequests == IF ~matchRunning THEN <<FieldControl(1, currentFieldId)>> ELSE <<>>

\* endEarly(): if (this.matchRunning) this._sendFCRequest(2)
EndEarlyRequests == IF matchRunning THEN <<FieldControl(2, currentFieldId)>> ELSE <<>>

Start(e) ==
    /\ Issue(e, "start", StartRequests, currentFieldId)
    /\ startPair' = ObserveStart(Sends(e, StartRequests))

EndEarly(e) ==
    /\ Issue(e, "endEarly", EndEarlyRequests, currentFieldId)
    /\ startPair' = NoStartPair

\* startOrEnd(): endEarly() if this.matchRunning, else start()
StartOrEnd(e) ==
    /\ Issue(e, "startOrEnd", IF matchRunning THEN EndEarlyRequests ELSE StartRequests,
             currentFieldId)
    /\ startPair' = NoStartPair

\* a variant that also moves the engine to field 0
QueueNextMatchOnFieldZero(e) ==
    /\ Issue(e, "queueNextMatch", <<QueueMatch(1)>>, 0)
    /\ startPair' = NoStartPair

QueueNextMatch(e) ==
    /\ Issue(e, "queueNextMatch", <<QueueMatch(1)>>, currentFieldId)
    /\ startPair' = NoStartPair

\* a variant that asks the server to queue a match
QueuePrevMatchSends(e) ==
    /\ Issue(e, "queuePrevMatch", <<QueueMatch(1)>>, currentFieldId)
    /\ startPair' = NoStartPair

QueuePrevMatch(e) ==
    /\ Issue(e, "queuePrevMatch", <<>>, currentFieldId)
    /\ startPair' = NoStartPair

\* queueDrivingSkills(fieldId): _queueMatch(2); currentFieldId = parseInt(fieldId);
\* _setActiveFieldRequest(fieldId)
QueueDrivingSkills(e, fieldId) ==
    /\ Issue(e, "queueDrivingSkills", <<QueueMatch(2), SetActive(fieldId)>>, fieldId)
    /\ startPair' = NoStartPair

QueueProgrammingSkills(e, fieldId) ==
    /\ Issue(e, "queueProgrammingSkills", <<QueueMatch(3), SetActive(fieldId)>>, fieldId)
    /\ startPair' = NoStartPair

ResetTimer(e) ==
    /\ Issue(e, "resetTimer", <<FieldControl(4, currentFieldId)>>, currentFieldId)
    /\ startPair' = NoStartPair

\* selectDisplay(d): the body is empty ("can't do this with the new protobuf
\* interface yet"); lastCall keeps the argument
SelectDisplay(e, d) ==
    /\ lastCall' = [Call("selectDisplay", <<>>, <<>>) EXCEPT !.display = d]
    /\ wire' = <<>>
    /\ emitted' = <<>>
    /\ thrown' = "none"
    /\ startPair' = NoStartPair
    /\ UNCHANGED <<connVars, matchVars, cbVars, codecVars, main, api>>

\* moveMatchToField(id): _setActiveFieldRequest(id); currentFieldId = id
MoveMatchToField(e, id) ==
    /\ Issue(e, "moveMatchToField", <<SetActive(id)>>, id)
    /\ startPair' = NoStartPair

Displays == {1, 2, 3}

\* the names of the facade's operations, as lastCall records them
FacadeOps ==
    {"start", "endEarly", "startOrEnd", "queueNextMatch", "queuePrevMatch",
     "queueDrivingSkills", "queueProgrammingSkills", "resetTimer", "selectDisplay",
     "moveMatchToField"}

Command(e) ==
    \/ Start(e)
    \/ EndEarly(e)
    \/ StartOrEnd(e)
    \/ QueueNextMatch(e)
    \/ QueuePrevMatch(e)
    \/ \E f \in FieldIds \ {0} : QueueDrivingSkills(e, f)
    \/ \E f \in FieldIds \ {0} : QueueProgrammingSkills(e, f)
    \/ ResetTimer(e)
    \/ \E d \in Displays : SelectDisplay(e, ToString(d))
    \/ \E f \in FieldIds \ {0} : MoveMatchToField(e, f)

(***************************************************************************)
(* A notice arrives on an open socket: the 'message' handler of the        *)
(* socket's owner runs _messageHandler.  The assignments are made, then    *)
(* _whenMatchInfoChanged either throws or hands a snapshot to the          *)
(* callback.                                                               *)
(***************************************************************************)
NoticeArrives(s, decoded) ==
    LET e == sockets[s].owner
        m == Interpret(MatchState, decoded)
        throws == decoded.id \in StateAffecting /\ WhenMatchInfoChangedThrows(e, m)
    IN  /\ sockets[s].readyState = "OPEN"
        /\ currentFieldId' = m.currentFieldId
        /\ matchRunning' = m.matchRunning
        /\ currentMatch' = m.currentMatch
        /\ currentState' = m.currentState
        /\ currentMatchTime' = m.currentMatchTime
        /\ currentDisplay' = m.currentDisplay
        /\ fieldList' = m.fieldList
        /\ emitted' = IF decoded.id \in StateAffecting /\ ~throws
                      THEN <<Snapshot(m)>> ELSE <<>>
        /\ thrown' = IF throws THEN "TypeError" ELSE "none"
        /\ lastCall' = Notified(decoded)
        /\ startPair' = ObserveNotice(decoded.id)
        /\ wire' = <<>>
        /\ UNCHANGED <<connVars, cbVars, codecVars, main, api>>


(***************************************************************************)
(* A frame arrives that fs_notice.decode (or _unmangle) cannot read: the   *)
(* call throws inside the async _messageHandler, before any assignment.    *)
(* The 'message' handler neither awaits nor catches the promise, so the    *)
(* rejection is unhandled: the runtime either reports it and goes on, or   *)
(* (the default from Node 15 on) ends the process, and with it every       *)
(* socket and every suspended call.                                        *)
(***************************************************************************)
\* what lastCall records for a frame that did not decode
Undecodable == Notice(-1, 0, NoMatch, 0, <<>>)

ProcessExit(socks) == [s \in DOMAIN socks |-> [socks[s] EXCEPT !.readyState = "CLOSED"]]

MalformedArrives(s, exits) ==
    /\ sockets[s].readyState = "OPEN"
    /\ lastCall' = Notified(Undecodable)
    /\ emitted' = <<>>
    /\ wire' = <<>>
    /\ startPair' = startPair
    /\ IF exits
       THEN /\ thrown' = "ProcessExit"
            /\ sockets' = ProcessExit(sockets)
            /\ tasks' = <<>>
       ELSE /\ thrown' = "UnhandledRejection"
            /\ UNCHANGED <<sockets, tasks>>
    /\ UNCHANGED <<cookie, websocket, fs_request, matchVars, cbVars, codecVars, main, api>>

(***************************************************************************)
(* onMatchInfoChange(callback) and onClose(callback), as the owner calls   *)
(* them one after the other.                                               *)
(***************************************************************************)
ObserveQuiet ==
    /\ wire' = <<>>
    /\ emitted' = <<>>
    /\ thrown' = "none"
    /\ lastCall' = NoCall
    /\ startPair' = startPair

RegisterCallbacks(e) ==
    /\ ~onMatchInfoChangeCallback[e] \/ ~onCloseCallback[e]
    /\ onMatchInfoChangeCallback' = [onMatchInfoChangeCallback EXCEPT ![e] = TRUE]
    /\ onCloseCallback' = [onCloseCallback EXCEPT ![e] = TRUE]
    /\ ObserveQuiet
    /\ UNCHANGED <<connVars, matchVars, codecVars, main, api>>

(***************************************************************************)
(* The cookie-authenticated plugin main (sdPlugin/plugin_node/main.js).    *)
(* tm_conn_established, TM and actions are its globals; engines counts the *)
(* VexTMWebsocket objects constructed so far (the next one is engine       *)
(* engines + 1); handlers holds one entry per didReceiveGlobalSettings     *)
(* event: where its handler is suspended ("init": await TM.init(),         *)
(* "delay": await delay(10000), "done": returned), the engine whose init() *)
(* it awaits, and how many attempts of its own failed and how many         *)
(* showAlert events it sent; getGlobalSettings counts the getGlobalSettings *)
(* events the onClose callbacks have sent to the Stream Deck software;     *)
(* selectedDisplays is the global of that name, keyed by action context.   *)
(***************************************************************************)
\* didReceiveGlobalSettings events in a behaviour
MaxHandlers == 2

\* the contexts of the actions that may appear on the deck
Contexts == {"context1", "context2"}

\* the contexts of the select-display actions that may appear on the deck
DisplayContexts == {"display1", "display2"}

\* selectedDisplays[context] has no entry, or holds undefined
NoDisplay == 0

\* the display stored when the test of the willAppear handler fails
DefaultDisplay == 2

MainIdle == [tm_conn_established |-> FALSE, TM |-> 0, actions |-> <<>>,
             engines |-> 0, handlers |-> <<>>, getGlobalSettings |-> 0,
             selectedDisplays |-> [c \in DisplayContexts |-> NoDisplay]]

Handler(pc, eng, failures, alerts) ==
    [pc |-> pc, eng |-> eng, failures |-> failures, alerts |-> alerts]

\* the slip "one alert per failed attempt"
ShowOneAlert(actions) == <<[event |-> "showAlert", context |-> "any"]>>

\* actions.forEach(action => send({event: "showAlert", context: action.uuid}))
ShowAlerts(actions) == [i \in DOMAIN actions |-> [event |-> "showAlert", context |-> actions[i]]]

\* the handlers suspended in await TM.init() on engine e
AwaitingInit(e) == {h \in DOMAIN main.handlers :
                       main.handlers[h].pc = "init" /\ main.handlers[h].eng = e}

(***************************************************************************)
(* The try block up to its await, run by handler h of the handlers hs:     *)
(* if (TM) TM.close(); TM = new VexTMWebsocket(...); await TM.init().      *)
(* The new engine has no cookie, so its init() waits in _authenticate; the *)
(* match state the plugin sees is the new engine's.                        *)
(***************************************************************************)
TryConnect(established, hs, h) ==
    LET e == main.engines + 1
    IN  /\ main.engines < MaxEngines
        /\ sockets' = IF main.TM # 0 THEN CloseSocket(sockets, websocket[main.TM]) ELSE sockets
        /\ tasks' = Append(tasks, Task(e, "init", "auth", TRUE, <<>>, cookie[e]))
        /\ main' = [main EXCEPT !.tm_conn_established = established,
                                 !.TM = e,
                                 !.engines = e,
                                 !.handlers = [hs EXCEPT ![h].pc = "init", ![h].eng = e]]
        /\ currentFieldId' = ConstructedMatchState.currentFieldId
        /\ matchRunning' = ConstructedMatchState.matchRunning
        /\ currentMatch' = ConstructedMatchState.currentMatch
        /\ currentState' = ConstructedMatchState.currentState
        /\ currentMatchTime' = ConstructedMatchState.currentMatchTime
        /\ currentDisplay' = ConstructedMatchState.currentDisplay
        /\ fieldList' = ConstructedMatchState.fieldList

\* after the loop: TM.onMatchInfoChange(...); TM.onClose(...)
RegisterOnTM ==
    /\ onMatchInfoChangeCallback' = [onMatchInfoChangeCallback EXCEPT ![main.TM] = TRUE]
    /\ onCloseCallback' = [onCloseCallback EXCEPT ![main.TM] = TRUE]

\* didReceiveGlobalSettings: tm_conn_established = false, then the loop's first pass
DidReceiveGlobalSettings ==
    /\ Len(main.handlers) < MaxHandlers
    /\ Len(tasks) < MaxTasks
    /\ TryConnect(FALSE, Append(main.handlers, Handler("init", 0, 0, 0)),
                  Len(main.handlers) + 1)
    /\ ObserveQuiet
    /\ UNCHANGED <<cookie, websocket, fs_request, cbVars, codecVars, api>>

\* await TM.init() returns in a handler: tm_conn_established = true, the loop
\* ends, and the callbacks are registered on TM
InitReturned(t) ==
    IF t.kind = "init" /\ AwaitingInit(t.eng) # {}
    THEN /\ main' = [main EXCEPT !.tm_conn_established = TRUE,
                                  !.handlers = [h \in DOMAIN main.handlers |->
                                      IF h \in AwaitingInit(t.eng)
                                      THEN [main.handlers[h] EXCEPT !.pc = "done"]
                                      ELSE main.handlers[h]]]
         /\ RegisterOnTM
    ELSE UNCHANGED <<main, cbVars>>

\* await TM.init() throws in a handler: the catch block logs, sends a
\* showAlert for every action in actions and waits in delay(10000)
InitRejected(t) ==
    IF t.kind = "init" /\ AwaitingInit(t.eng) # {}
    THEN main' = [main EXCEPT !.handlers = [h \in DOMAIN main.handlers |->
                      IF h \in AwaitingInit(t.eng)
                      THEN [main.handlers[h] EXCEPT
                                !.pc = "delay",
                                !.failures = @ + 1,
                                !.alerts = @ + Len(ShowAlerts(main.actions))]
                      ELSE main.handlers[h]]]
    ELSE UNCHANGED main

\* delay(10000) resolves in handler h: the loop condition is read again
DelayDone(h) ==
    /\ main.handlers[h].pc = "delay"
    /\ IF ~main.tm_conn_established
       THEN /\ Len(tasks) < MaxTasks
            /\ TryConnect(FALSE, main.handlers, h)
            /\ UNCHANGED cbVars
       ELSE /\ main' = [main EXCEPT !.handlers[h].pc = "done"]
            /\ RegisterOnTM
            /\ UNCHANGED <<sockets, tasks, matchVars>>
    /\ ObserveQuiet
    /\ UNCHANGED <<cookie, websocket, fs_request, codecVars, api>>

\* willAppear: actions.push({uuid, action})
WillAppear(c) ==
    /\ \A i \in DOMAIN main.actions : main.actions[i] # c
    /\ main' = [main EXCEPT !.actions = Append(@, c)]
    /\ ObserveQuiet
    /\ UNCHANGED <<connVars, matchVars, cbVars, codecVars, api>>

\* willDisappear: actions = removeItem(actions, {uuid, action})
WillDisappear(c) ==
    /\ \E i \in DOMAIN main.actions :
          /\ main.actions[i] = c
          /\ main' = [main EXCEPT !.actions = RemoveAt(@, i)]
    /\ ObserveQuiet
    /\ UNCHANGED <<connVars, matchVars, cbVars, codecVars, api>>

(***************************************************************************)
(* The API-key plugin main (plugin_node/main.js), which talks to TM        *)
(* through the vex-tm-client library.  tm_conn_established, tm_fs (set or  *)
(* null / undefined), tm_fs_conn and fields are its globals; handlers      *)
(* holds one entry per didReceiveGlobalSettings event: the await its       *)
(* handler is suspended at ("connect", "getFieldsets", "getFields",        *)
(* "fsConnect"), or "done", "returned" (the early return after a failed    *)
(* connect) or "threw", with the connects of its own that failed and the   *)
(* showAlert events it sent; thrown is the exception the last turn ended   *)
(* with.  The library's answers are the environment's choice.              *)
(***************************************************************************)
ApiIdle == [tm_conn_established |-> FALSE, tm_fs |-> FALSE, tm_fs_conn |-> FALSE,
            fields |-> NULL, handlers |-> <<>>, thrown |-> "none"]

ApiHandler(pc, failures, alerts) == [pc |-> pc, failures |-> failures, alerts |-> alerts]

\* the field lists tm_fs.getFields() may answer with
ApiServerFields == {<<>>} \cup {[i \in 1..n |-> [id |-> i, name |-> ServerFieldName(i)]] :
                                  n \in 1..MaxFieldId}

\* didReceiveGlobalSettings: a live field-set connection is dropped,
\* tm_conn_established = false, and the handler waits in tm_client.connect()
ApiDidReceiveGlobalSettings ==
    /\ Len(api.handlers) < MaxHandlers
    /\ api' = [api EXCEPT !.tm_fs_conn = FALSE,
                           !.tm_fs = IF api.tm_fs_conn THEN FALSE ELSE @,
                           !.tm_conn_established = FALSE,
                           !.handlers = Append(@, ApiHandler("connect", 0, 0)),
                           !.thrown = "none"]
    /\ UNCHANGED <<engineVars, codecVars, main>>

\* the slip "a failed connect is tried again, with an alert"
ConnectFailedRetries(hr) == [hr EXCEPT !.pc = "connect", !.failures = 1, !.alerts = 1]

\* conn_result.success is false: log("Failed to connect to TM, try again by
\* clicking 'RECONNECT'"); return
ConnectFailed(hr) == [hr EXCEPT !.pc = "returned", !.failures = @ + 1]

\* tm_client.connect() answers handler h
ApiConnectReturns(h, success) ==
    /\ api.handlers[h].pc = "connect"
    /\ api' = IF success
              THEN [api EXCEPT !.tm_conn_established = TRUE,
                               !.handlers[h].pc = "getFieldsets",
                               !.thrown = "none"]
              ELSE [api EXCEPT !.handlers[h] = ConnectFailed(@),
                               !.thrown = "none"]
    /\ UNCHANGED <<engineVars, codecVars, main>>

\* tm_client.getFieldsets() answers: tm_fs = fieldsets.data.find(...), which is
\* undefined when no field set has the id; then tm_fs.getFields() is called
ApiGetFieldsetsReturns(h, found) ==
    /\ api.handlers[h].pc = "getFieldsets"
    /\ api' = [api EXCEPT !.tm_fs = found,
                           !.handlers[h].pc = IF found THEN "getFields" ELSE "threw",
                           !.thrown = IF found THEN "none" ELSE "TypeError"]
    /\ UNCHANGED <<engineVars, codecVars, main>>

\* tm_fs.getFields() answers: fields = data; fields.push({id: 0, name: ""});
\* then tm_fs.connect() is called on the tm_fs of that moment
ApiGetFieldsReturns(h, data) ==
    /\ api.handlers[h].pc = "getFields"
    /\ api' = [api EXCEPT !.fields = Append(data, [id |-> 0, name |-> ""]),
                           !.handlers[h].pc = IF api.tm_fs THEN "fsConnect" ELSE "threw",
                           !.thrown = IF api.tm_fs THEN "none" ELSE "TypeError"]
    /\ UNCHANGED <<engineVars, codecVars, main>>

\* tm_fs.connect() answers: tm_fs_conn is set, then tm_fs.on("message", ...)
ApiFsConnectReturns(h) ==
    /\ api.handlers[h].pc = "fsConnect"
    /\ api' = [api EXCEPT !.tm_fs_conn = TRUE,
                           !.handlers[h].pc = IF api.tm_fs THEN "done" ELSE "threw",
                           !.thrown = IF api.tm_fs THEN "none" ELSE "TypeError"]
    /\ UNCHANGED <<engineVars, codecVars, main>>

\* keyDown with tm_conn_established true: a method of tm_fs is called
ApiKeyDown ==
    /\ api.tm_conn_established
    /\ api' = [api EXCEPT !.thrown = IF api.tm_fs THEN "none" ELSE "TypeError"]
    /\ UNCHANGED <<engineVars, codecVars, main>>

(***************************************************************************)
(* init(): _connectWebsocket(true).  _connectWebsocket(force) up to its    *)
(* first await: with the cookie missing or expired it waits in             *)
(* _authenticate; otherwise force closes the socket and clears             *)
(* this.websocket, and the call waits in protobuf.load.                    *)
(***************************************************************************)
\* a variant whose force flag leaves an existing socket in place
InitCallKeepsSocket(e) ==
    /\ Len(tasks) < MaxTasks
    /\ IF cookie[e] # "fresh"
       THEN /\ tasks' = Append(tasks, Task(e, "init", "auth", TRUE, <<>>, cookie[e]))
            /\ UNCHANGED <<sockets, websocket>>
       ELSE /\ tasks' = Append(tasks, Task(e, "init", "load", TRUE, <<>>, "fresh"))
            /\ UNCHANGED <<sockets, websocket>>
    /\ ObserveQuiet
    /\ UNCHANGED <<cookie, fs_request, cbVars, matchVars, codecVars, main, api>>

InitCall(e) ==
    /\ Len(tasks) < MaxTasks
    /\ IF cookie[e] # "fresh"
       THEN /\ tasks' = Append(tasks, Task(e, "init", "auth", TRUE, <<>>, cookie[e]))
            /\ UNCHANGED <<sockets, websocket>>
       ELSE /\ tasks' = Append(tasks, Task(e, "init", "load", TRUE, <<>>, "fresh"))
            /\ sockets' = CloseSocket(sockets, websocket[e])
            /\ websocket' = [websocket EXCEPT ![e] = 0]
    /\ ObserveQuiet
    /\ UNCHANGED <<cookie, fs_request, cbVars, matchVars, codecVars, main, api>>

(***************************************************************************)
(* _authenticate() returns: the cookie and its expiration are stored, then *)
(* _connectWebsocket goes on: this.close(); this.websocket = null; (the    *)
(* same again under force;) and, the websocket being null, it waits in     *)
(* protobuf.load.                                                          *)
(***************************************************************************)
AuthDone(i) ==
    LET t == tasks[i]
    IN  /\ t.pc = "auth"
        /\ cookie' = [cookie EXCEPT ![t.eng] = "fresh"]
        /\ sockets' = CloseSocket(sockets, websocket[t.eng])
        /\ websocket' = [websocket EXCEPT ![t.eng] = 0]
        /\ tasks' = [tasks EXCEPT ![i].pc = "load"]
        /\ ObserveQuiet
        /\ UNCHANGED <<fs_request, cbVars, matchVars, codecVars, main, api>>

(***************************************************************************)
(* protobuf.load returns: the schema types are stored, a WebSocket is      *)
(* created (CONNECTING) and stored in this.websocket, its handlers are     *)
(* registered, and _connectWebsocket returns.  A waiting _send then calls  *)
(* this.websocket.send(data); a waiting init() returns to its caller,      *)
(* which may be a handler of the plugin main.                              *)
(***************************************************************************)
LoadDone(i) ==
    LET t == tasks[i]
        s == Len(sockets) + 1
    IN  /\ t.pc = "load"
        /\ Len(sockets) < MaxSockets
        /\ fs_request' = [fs_request EXCEPT ![t.eng] = TRUE]
        /\ sockets' = Append(sockets, NewSocket(t.eng))
        /\ websocket' = [websocket EXCEPT ![t.eng] = s]
        /\ tasks' = RemoveAt(tasks, i)
        /\ IF t.kind = "send"
           THEN /\ wire' = <<Handed(sockets', s, t.data.kind, t.data.data, t.found)>>
                /\ thrown' = "NotOpen"
           ELSE /\ wire' = <<>>
                /\ thrown' = "none"
        /\ InitReturned(t)
        /\ emitted' = <<>>
        /\ lastCall' = NoCall
        /\ startPair' = startPair
        /\ UNCHANGED <<cookie, matchVars, codecVars, api>>

(***************************************************************************)
(* The socket's 'open' event: the handler generates the handshake and      *)
(* hands it to this._send, which sends on this.websocket.                  *)
(***************************************************************************)
SocketOpen(s) ==
    LET e == sockets[s].owner
    IN  /\ sockets[s].readyState = "CONNECTING"
        /\ Len(tasks) < MaxTasks
        /\ _send([sockets EXCEPT ![s].readyState = "OPEN"], e, "handshake", <<Handshake>>)
        /\ emitted' = <<>>
        /\ thrown' = "none"
        /\ lastCall' = NoCall
        /\ startPair' = startPair
        /\ UNCHANGED <<cookie, websocket, fs_request, cbVars, matchVars, codecVars, main, api>>

(***************************************************************************)
(* _authenticate() throws (the login request fails, or its response has no *)
(* set-cookie header): the _connectWebsocket call is rejected, and with it *)
(* the _send or init() that awaits it (an init() awaited by a handler of   *)
(* the plugin main throws into its catch block).  Nothing is handed to a   *)
(* socket.                                                                 *)
(***************************************************************************)
AuthFail(i) ==
    /\ tasks[i].pc = "auth"
    /\ tasks' = RemoveAt(tasks, i)
    /\ InitRejected(tasks[i])
    /\ emitted' = <<>>
    /\ thrown' = IF tasks[i].kind = "init" /\ AwaitingInit(tasks[i].eng) # {}
                 THEN "none" ELSE "AuthError"
    /\ lastCall' = NoCall
    /\ startPair' = startPair
    /\ wire' = <<>>
    /\ UNCHANGED <<cookie, websocket, fs_request, sockets, cbVars,
                   matchVars, codecVars, api>>

\* time passes beyond this.cookie_expiration
CookieExpires(e) ==
    /\ cookie[e] = "fresh"
    /\ cookie' = [cookie EXCEPT ![e] = "expired"]
    /\ ObserveQuiet
    /\ UNCHANGED <<websocket, fs_request, sockets, tasks, cbVars,
                   matchVars, codecVars, main, api>>

(***************************************************************************)
(* The socket's 'close' event, after the server closed an open socket or   *)
(* after websocket.close(1000): the handler calls this.onCloseCallback(),  *)
(* a TypeError while no callback is registered.                            *)
(***************************************************************************)
\* a variant whose 'close' handler does not call the callback
SocketClosedSilently(s) ==
    /\ sockets[s].readyState \in {"OPEN", "CLOSING"}
    /\ sockets' = [sockets EXCEPT ![s].readyState = "CLOSED"]
    /\ emitted' = <<>>
    /\ thrown' = "none"
    /\ lastCall' = NoCall
    /\ startPair' = startPair
    /\ wire' = <<>>
    /\ UNCHANGED <<cookie, websocket, fs_request, tasks, cbVars,
                   matchVars, codecVars, main, api>>

\* the callback the plugin main registers sends a getGlobalSettings event
SocketClosed(s) ==
    /\ sockets[s].readyState \in {"OPEN", "CLOSING"}
    /\ sockets' = [sockets EXCEPT ![s].readyState = "CLOSED"]
    /\ emitted' = <<>>
    /\ thrown' = IF onCloseCallback[sockets[s].owner] THEN "none" ELSE "TypeError"
    /\ main' = IF onCloseCallback[sockets[s].owner] /\ main.engines > 0
               THEN [main EXCEPT !.getGlobalSettings = @ + 1]
               ELSE main
    /\ lastCall' = NoCall
    /\ startPair' = startPair
    /\ wire' = <<>>
    /\ UNCHANGED <<cookie, websocket, fs_request, tasks, cbVars,
                   matchVars, codecVars, api>>

(***************************************************************************)
(* The connection cannot be established (the server refuses or is not      *)
(* there): the WebSocket emits 'error'.  _connectWebsocket registers       *)
(* 'open', 'close' and 'message' listeners only, and an 'error' event      *)
(* without a listener is thrown by the emitter; neither main.js installs   *)
(* an uncaughtException handler, so the process ends.  init() returned     *)
(* when the socket was created, so main is left as it was.                 *)
(***************************************************************************)
ConnectFails(s) ==
    /\ sockets[s].readyState = "CONNECTING"
    /\ sockets' = ProcessExit(sockets)
    /\ tasks' = <<>>
    /\ thrown' = "ProcessExit"
    /\ lastCall' = [NoCall EXCEPT !.op = "error"]
    /\ emitted' = <<>>
    /\ wire' = <<>>
    /\ startPair' = startPair
    /\ UNCHANGED <<cookie, websocket, fs_request, matchVars, cbVars, codecVars, main, api>>

(***************************************************************************)
(* Initial values.                                                         *)
(***************************************************************************)

EngineConstructed ==
    /\ cookie = [e \in Engines |-> "none"]
    /\ websocket = [e \in Engines |-> 0]
    /\ fs_request = [e \in Engines |-> FALSE]
    /\ onMatchInfoChangeCallback = [e \in Engines |-> FALSE]
    /\ onCloseCallback = [e \in Engines |-> FALSE]
    /\ currentFieldId = ConstructedMatchState.currentFieldId
    /\ matchRunning = ConstructedMatchState.matchRunning
    /\ currentMatch = ConstructedMatchState.currentMatch
    /\ currentState = ConstructedMatchState.currentState
    /\ currentMatchTime = ConstructedMatchState.currentMatchTime
    /\ currentDisplay = ConstructedMatchState.currentDisplay
    /\ fieldList = ConstructedMatchState.fieldList
    /\ sockets = <<>>
    /\ tasks = <<>>
    /\ wire = <<>>
    /\ emitted = <<>>
    /\ thrown = "none"
    /\ lastCall = NoCall
    /\ startPair = NoStartPair

(***************************************************************************)
(* SpecCodec: the codec harness alone.                                     *)
(***************************************************************************)
InitCodec ==
    /\ codec \in {CodecInput(d, k) : d \in DataInputs, k \in Byte}
    /\ harness = HarnessOff
    /\ EngineConstructed
    /\ main = MainIdle
    /\ api = ApiIdle

NextCodec ==
    \/ Mangle /\ UNCHANGED <<harness, engineVars, main, api>>
    \/ Unmangle /\ UNCHANGED <<harness, engineVars, main, api>>

SpecCodec == InitCodec /\ [][NextCodec]_vars

(***************************************************************************)
(* Claims on the codec.                                                    *)
(***************************************************************************)
\* C9: _unmangle(_mangle(d, k)) = d for every byte sequence d and every key
\* byte k: once the harness has unmangled what it mangled, it holds the
\* plaintext it started from.
C9_RoundTrip ==
    codec.pc = "unmangled" => codec.unmangled_data = codec.data

\* a two-byte plaintext under key 255 has gone through both directions
C9_Witness ==
    /\ codec.pc = "unmangled"
    /\ codec.magic_number = 255
    /\ codec.data = <<128, 229>>
    /\ codec.mangled_data = <<26, 127, 26>>
    /\ codec.unmangled_data = <<128, 229>>

(***************************************************************************)
(* SpecEngine: one engine (engine 1) from its construction, with its owner *)
(* calling init() once and registering the callbacks, a server that        *)
(* accepts the login and the socket, and every notice and command.         *)
(***************************************************************************)
InitEngine ==
    /\ codec = CodecOff
    /\ harness = HarnessOff
    /\ EngineConstructed
    /\ main = MainIdle
    /\ api = ApiIdle

NextEngine ==
    \/ cookie[1] = "none" /\ tasks = <<>> /\ InitCall(1)
    \/ \E i \in DOMAIN tasks : AuthDone(i)
    \/ \E i \in DOMAIN tasks : LoadDone(i)
    \/ \E s \in DOMAIN sockets : SocketOpen(s)
    \/ RegisterCallbacks(1)
    \/ \E s \in DOMAIN sockets : \E decoded \in Notices : NoticeArrives(s, decoded)
    \/ Len(tasks) < MaxTasks /\ Command(1)

SpecEngine == InitEngine /\ [][NextEngine]_vars

(***************************************************************************)
(* SpecFraming: the codec harness on drawn inputs, or (the harness off)    *)
(* the engine of SpecEngine sending its command frames.                    *)
(***************************************************************************)
InitFraming ==
    /\ codec \in {CodecInput(d, k) : d \in DataInputs, k \in Byte} \cup {CodecOff}
    /\ harness = HarnessOff
    /\ EngineConstructed
    /\ main = MainIdle
    /\ api = ApiIdle

NextFraming ==
    \/ NextCodec
    \/ codec = CodecOff /\ NextEngine

SpecFraming == InitFraming /\ [][NextFraming]_vars

(***************************************************************************)
(* Claims on the engine's commands and notices.                            *)
(***************************************************************************)
\* the frame is [key XOR 229] ++ [data[i] XOR key for each i]
MangledForm(frame, data, key) ==
    /\ Len(frame) = Len(data) + 1
    /\ frame[1] = Xor(key, 229)
    /\ \A i \in 1..Len(data) : frame[i + 1] = Xor(data[i], key)

\* C10: _mangle(data, key) has length len(data) + 1, first byte key XOR 229
\* and byte i + 1 equal to data[i] XOR key; and every frame a command hands
\* to _send through _sendFSRequest, whether it is sent in the same turn or
\* waits for the connection, has this form for the plaintext of a request
\* and the key 123.
C10_MangledForm ==
    /\ codec.pc \in {"mangled", "unmangled"}
          => MangledForm(codec.mangled_data, codec.data, codec.magic_number)
    /\ Len(lastCall.frames) = Len(lastCall.msgs)
    /\ \A i \in DOMAIN lastCall.frames :
          MangledForm(lastCall.frames[i], Encode(lastCall.msgs[i]), 123)
    /\ \A i \in DOMAIN wire :
          wire[i].kind = "request"
            => \E msg \in Requests : MangledForm(wire[i].data, Encode(msg), 123)
    /\ \A i \in DOMAIN tasks :
          tasks[i].kind = "send" /\ tasks[i].data.kind = "request"
            => \E msg \in Requests : MangledForm(tasks[i].data.data, Encode(msg), 123)

\* a two-byte plaintext has been mangled under key 229: the key byte is 0
C10_Witness ==
    /\ codec.pc = "mangled"
    /\ codec.magic_number = 229
    /\ codec.data = <<1, 128>>
    /\ codec.mangled_data = <<0, 228, 101>>

\* C1: start() hands a field-control frame with value 1 to _send only when
\* matchRunning is false, and nothing when it is true; endEarly() hands a
\* field-control frame with value 2 only when matchRunning is true, and
\* nothing when it is false.  With the schema loaded the one frame is sent;
\* a frame stands for each message of the call.
C1_StartEndGuards ==
    /\ Len(lastCall.frames) = Len(lastCall.msgs)
    /\ lastCall.op = "start" =>
          /\ lastCall.running => lastCall.frames = <<>>
          /\ ~lastCall.running /\ fs_request[1] => Len(lastCall.frames) = 1
          /\ \A i \in DOMAIN lastCall.frames :
                /\ ~lastCall.running
                /\ lastCall.msgs[i].variant = "fieldControl"
                /\ lastCall.msgs[i].value = 1
    /\ lastCall.op = "endEarly" =>
          /\ ~lastCall.running => lastCall.frames = <<>>
          /\ lastCall.running /\ fs_request[1] => Len(lastCall.frames) = 1
          /\ \A i \in DOMAIN lastCall.frames :
                /\ lastCall.running
                /\ lastCall.msgs[i].variant = "fieldControl"
                /\ lastCall.msgs[i].value = 2

\* start() was called while a match was running, with the schema loaded and
\* the socket open, and nothing went to the socket
C1_Witness ==
    /\ lastCall.op = "start"
    /\ lastCall.running
    /\ fs_request[1]
    /\ websocket[1] # 0
    /\ sockets[websocket[1]].readyState = "OPEN"
    /\ lastCall.frames = <<>>
    /\ wire = <<>>

C7_IdZeroIsNA ==
    ~fieldList.isNull => fieldList.names[0] = "N/A"

\* C8 (as stated): in every state, before a field-list notice too, the
\* lookup of field id 0 succeeds (the registry is an object) and yields an
\* empty or "N/A" name.
C8_IdZeroAlwaysResolves ==
    /\ ~fieldList.isNull
    /\ FieldName(fieldList, 0) \in {"", "N/A"}


(***************************************************************************)
(* SpecConn: the connection path of one engine (engine 1) from its         *)
(* construction: init() and commands at any time, logins that succeed or   *)
(* fail, the cookie expiring, sockets opening and closing.  No notice is   *)
(* delivered.                                                              *)
(***************************************************************************)
\* the commands SpecConn issues: one frame, two frames, none
ConnCommand(e) ==
    \/ ResetTimer(e)
    \/ QueueDrivingSkills(e, 1)
    \/ QueuePrevMatch(e)

NextConn ==
    \/ InitCall(1)
    \/ \E i \in DOMAIN tasks : AuthDone(i)
    \/ \E i \in DOMAIN tasks : AuthFail(i)
    \/ \E i \in DOMAIN tasks : LoadDone(i)
    \/ \E s \in DOMAIN sockets : SocketOpen(s)
    \/ \E s \in DOMAIN sockets : SocketClosed(s)
    \/ CookieExpires(1)
    \/ RegisterCallbacks(1)
    \/ Len(tasks) < MaxTasks /\ ConnCommand(1)

SpecConn == InitEngine /\ [][NextConn]_vars

(***************************************************************************)
(* Claims on the connection path.                                          *)
(***************************************************************************)
\* C5 (as stated): the frame of a command sent with the cookie expired is,
\* after the re-authentication, handed to an open socket.
C5_SendAfterReauthIsOpen ==
    \A i \in DOMAIN wire :
        wire[i].kind = "request" /\ wire[i].found = "expired"
            => wire[i].readyState = "OPEN"

\* C6 (as stated): no frame is handed to a socket that is not open.
C6_HandedOnlyWhileOpen ==
    \A i \in DOMAIN wire : wire[i].readyState = "OPEN"

(***************************************************************************)
(* SpecMain: the cookie-authenticated plugin main from its start: settings *)
(* events, logins that succeed or fail, delays running out, actions        *)
(* appearing and disappearing, sockets opening and closing, and key        *)
(* presses (reset timer) at any time.                                      *)
(***************************************************************************)
\* what lastCall records for a keyDown event that was not dispatched
Ignored == [NoCall EXCEPT !.op = "keyDown"]

\* a keyDown event that finds the branch's condition false: no later branch of
\* the handler matches a keyDown, so the handler returns
KeyDownIgnored ==
    /\ lastCall' = Ignored
    /\ wire' = <<>>
    /\ emitted' = <<>>
    /\ thrown' = "none"
    /\ startPair' = startPair
    /\ UNCHANGED <<connVars, matchVars, cbVars, codecVars, main, api>>

\* a variant that dispatches whenever there is an engine in TM
KeyDownWheneverTM ==
    IF main.TM # 0
    THEN Len(tasks) < MaxTasks /\ ResetTimer(main.TM)
    ELSE KeyDownIgnored

\* keyDown on the "reset" action: TM.resetTimer() if tm_conn_established
KeyDown ==
    IF main.tm_conn_established
    THEN Len(tasks) < MaxTasks /\ ResetTimer(main.TM)
    ELSE KeyDownIgnored

NextMain ==
    \/ DidReceiveGlobalSettings
    \/ \E i \in DOMAIN tasks : AuthDone(i)
    \/ \E i \in DOMAIN tasks : AuthFail(i)
    \/ \E i \in DOMAIN tasks : LoadDone(i)
    \/ \E h \in DOMAIN main.handlers : DelayDone(h)
    \/ \E c \in Contexts : WillAppear(c)
    \/ \E c \in Contexts : WillDisappear(c)
    \/ \E s \in DOMAIN sockets : SocketOpen(s)
    \/ \E s \in DOMAIN sockets : SocketClosed(s)
    \/ KeyDown

SpecMain == InitEngine /\ [][NextMain]_vars

(***************************************************************************)
(* Claims on the cookie-authenticated plugin main.                         *)
(***************************************************************************)
\* C3 (as stated): N failed attempts of a settings handler have issued
\* exactly N alert events.
C3_OneAlertPerFailure ==
    \A h \in DOMAIN main.handlers : main.handlers[h].alerts = main.handlers[h].failures

\* C3: a failed attempt sends one showAlert per action registered at that
\* moment and then waits; when the wait is over the handler makes a further
\* attempt on a new engine if tm_conn_established is still false and returns
\* otherwise; and tm_conn_established becomes true only when an awaited
\* init() has returned.
C3_RetryLoop ==
    [][ /\ \A h \in DOMAIN main.handlers :
             /\ main.handlers[h].pc = "init" /\ main'.handlers[h].pc = "delay"
                   => /\ main'.handlers[h].failures = main.handlers[h].failures + 1
                      /\ main'.handlers[h].alerts
                            = main.handlers[h].alerts + Len(main.actions)
             /\ main.handlers[h].pc = "delay" /\ main'.handlers[h].pc # "delay"
                   => IF main.tm_conn_established
                      THEN main'.handlers[h].pc = "done"
                      ELSE /\ main'.handlers[h].pc = "init"
                           /\ main'.handlers[h].eng = main.engines + 1
                           /\ main'.TM = main'.handlers[h].eng
                           /\ ~main'.tm_conn_established
             /\ main.handlers[h].pc = "init" /\ main'.handlers[h].pc # "init"
                   => main'.handlers[h].pc = "delay" \/ main'.tm_conn_established
        /\ ~main.tm_conn_established /\ main'.tm_conn_established
              => \E h \in DOMAIN main.handlers :
                    main.handlers[h].pc = "init" /\ main'.handlers[h].pc = "done"
      ]_vars

\* a handler whose two attempts failed with two actions on the deck has sent
\* four alerts and is in its third attempt
C3_Witness ==
    \E h \in DOMAIN main.handlers :
        /\ main.handlers[h].failures = 2
        /\ main.handlers[h].alerts = 4
        /\ main.handlers[h].pc = "init"
        /\ ~main.tm_conn_established

(***************************************************************************)
(* SpecApi: the API-key plugin main from its start: settings events, the   *)
(* library's answers, key presses.                                         *)
(***************************************************************************)
NextApi ==
    \/ ApiDidReceiveGlobalSettings
    \/ \E h \in DOMAIN api.handlers : \E success \in BOOLEAN : ApiConnectReturns(h, success)
    \/ \E h \in DOMAIN api.handlers : \E found \in BOOLEAN : ApiGetFieldsetsReturns(h, found)
    \/ \E h \in DOMAIN api.handlers : \E data \in ApiServerFields : ApiGetFieldsReturns(h, data)
    \/ \E h \in DOMAIN api.handlers : ApiFsConnectReturns(h)
    \/ ApiKeyDown

SpecApi == InitEngine /\ [][NextApi]_vars

C15_OneSnapshotPerNotice ==
    (lastCall.op = "_messageHandler" /\ lastCall.notice \in {8, 1, 2, 5, 3, 6, 14}) =>
        /\ Len(emitted) = 1
        /\ emitted[1] = [match |-> currentMatch, state |-> currentState,
                         time |-> currentMatchTime, isRunning |-> matchRunning,
                         field |-> FieldName(fieldList, currentFieldId)]

C17_SkillsFramesInOrder ==
    lastCall.op \in {"queueDrivingSkills", "queueProgrammingSkills"} =>
        /\ lastCall.msgs =
              <<QueueMatch(IF lastCall.op = "queueDrivingSkills" THEN 2 ELSE 3),
                SetActive(currentFieldId)>>
        /\ Len(wire) = 2
        /\ \A i \in DOMAIN wire :
              /\ wire[i].readyState = "OPEN"
              /\ wire[i].kind = "request"
              /\ wire[i].data = lastCall.frames[i]

C19_StartOrEndSendsOne ==
    lastCall.op = "startOrEnd" =>
        /\ lastCall.msgs =
              <<FieldControl(IF lastCall.running THEN 2 ELSE 1, lastCall.fieldId)>>
        /\ Len(wire) = 1
        /\ wire[1].readyState = "OPEN"
        /\ wire[1].kind = "request"
        /\ wire[1].data = lastCall.frames[1]

\* C26: a match-stopped or match-aborted notice leaves running false, the
\* phase "DSBL" and the current field id equal to the notice's field id; a
\* match-paused notice leaves running false, the phase "PAUSED" and the field
\* id equal to the notice's; the match name and the remaining time are
\* unchanged by all three.
C26_StoppedAbortedPaused ==
    [][(lastCall'.op = "_messageHandler" /\ lastCall'.notice \in {2, 5, 3}) =>
          /\ matchRunning' = FALSE
          /\ currentState' = IF lastCall'.notice = 3 THEN "PAUSED" ELSE "DSBL"
          /\ currentFieldId' = lastCall'.decoded.fieldId
          /\ UNCHANGED <<currentMatch, currentMatchTime>>]_vars

\* a running qualification match with 15 seconds left was aborted on field 1
C26_Witness ==
    /\ lastCall.op = "_messageHandler"
    /\ lastCall.notice = 5
    /\ lastCall.decoded.fieldId = 1
    /\ currentFieldId = 1
    /\ ~matchRunning
    /\ currentState = "DSBL"
    /\ currentMatch = "Q1"
    /\ currentMatchTime = 15

\* C27: a match-started notice sets running to true and the current field id
\* to the notice's field id, and derives the phase from the match name and the
\* remaining time the engine holds at that moment; the match name and the
\* remaining time are unchanged.  The remaining time held is what the last
\* time-updated notice left: nothing else writes it.
C27_Started ==
    [][/\ (lastCall'.op = "_messageHandler" /\ lastCall'.notice = 1) =>
             /\ matchRunning' = TRUE
             /\ currentFieldId' = lastCall'.decoded.fieldId
             /\ currentState' =
                   IF currentMatch = "TO" THEN "TIMEOUT"
                   ELSE IF currentMatchTime \in {15, 14, 45, 44} THEN "AUTO"
                   ELSE IF currentMatchTime \in {60, 59} /\ currentMatch = "A Coding"
                        THEN "AUTO"
                   ELSE "DRIVER"
             /\ UNCHANGED <<currentMatch, currentMatchTime>>
       /\ currentMatchTime' # currentMatchTime =>
             /\ lastCall'.op = "_messageHandler"
             /\ lastCall'.notice = 6
             /\ currentMatchTime' = lastCall'.decoded.remaining]_vars

\* programming skills started on field 1 with 60 seconds on the clock
C27_Witness ==
    /\ lastCall.op = "_messageHandler"
    /\ lastCall.notice = 1
    /\ lastCall.decoded.fieldId = 1
    /\ currentFieldId = 1
    /\ matchRunning
    /\ currentMatch = "A Coding"
    /\ currentMatchTime = 60
    /\ currentState = "AUTO"

\* C28: a time-updated notice changes only the remaining time: the match name,
\* the phase, the running flag, the current field id, the selected display and
\* the field list are the same after it as before it.
C28_TimeUpdatedOnly ==
    [][(lastCall'.op = "_messageHandler" /\ lastCall'.notice = 6) =>
          /\ currentMatchTime' = lastCall'.decoded.remaining
          /\ UNCHANGED <<currentMatch, currentState, matchRunning, currentFieldId,
                         currentDisplay, fieldList>>]_vars

\* the clock of a running match went to 15 seconds, the phase staying DRIVER
C28_Witness ==
    /\ lastCall.op = "_messageHandler"
    /\ lastCall.notice = 6
    /\ lastCall.decoded.remaining = 15
    /\ currentMatchTime = 15
    /\ matchRunning
    /\ currentState = "DRIVER"
    /\ ~fieldList.isNull

\* C29: a field-activated notice changes only the current field id (the match
\* name, the phase, the running flag, the remaining time and the field list
\* are unchanged), and a change notification is emitted.
C29_FieldActivated ==
    [][(lastCall'.op = "_messageHandler" /\ lastCall'.notice = 14) =>
          /\ currentFieldId' = lastCall'.decoded.fieldId
          /\ UNCHANGED <<currentMatch, currentState, matchRunning, currentMatchTime,
                         fieldList>>
          /\ Len(emitted') = 1]_vars

\* C30: a match-queued notice sets the current field id to the notice's field
\* id, or to 0 when the notice carries none, and the match name to the name
\* the naming rules give the match identity in the notice ("NONE" when the
\* notice carries no match); the running flag, the phase and the remaining
\* time are unchanged.
C30_Queued ==
    [][(lastCall'.op = "_messageHandler" /\ lastCall'.notice = 8) =>
          LET match == lastCall'.decoded.match
          IN  /\ currentFieldId' = lastCall'.decoded.fieldId
              /\ match = NoMatch => currentMatch' = "NONE"
              /\ (match # NoMatch /\ match.round = "QUAL") =>
                    currentMatch' = "Q" \o ToString(match.match)
              /\ (match # NoMatch /\ match.round = "TIMEOUT") => currentMatch' = "TO"
              /\ (match # NoMatch /\ match.round = "SKILLS") =>
                    currentMatch' = IF match.instance = 2 THEN "D Skills" ELSE "A Coding"
              /\ match # NoMatch => currentMatch' = _buildMatchName(match)
              /\ UNCHANGED <<matchRunning, currentState, currentMatchTime>>]_vars

\* driving skills was queued, with no field in the notice, while a match was
\* paused with 15 seconds left
C30_Witness ==
    /\ lastCall.op = "_messageHandler"
    /\ lastCall.notice = 8
    /\ lastCall.decoded.fieldId = 0
    /\ lastCall.decoded.match = [round |-> "SKILLS", instance |-> 2, match |-> 1]
    /\ currentFieldId = 0
    /\ currentMatch = "D Skills"
    /\ currentState = "PAUSED"
    /\ currentMatchTime = 15

\* C31: the match name changes only when a match-queued notice is processed:
\* a step that is any other notice, or any command of the facade, leaves it
\* exactly as it was.
C31_NameOnlyByQueued ==
    [][/\ currentMatch' # currentMatch =>
             lastCall'.op = "_messageHandler" /\ lastCall'.notice = 8
       /\ (lastCall'.op = "_messageHandler" /\ lastCall'.notice # 8) =>
             currentMatch' = currentMatch
       /\ lastCall'.op \in FacadeOps => currentMatch' = currentMatch]_vars

\* a queued timeout was started, had its clock updated, and was paused on
\* field 1: the name is still the one the match-queued notice gave
C31_Witness ==
    /\ lastCall.op = "_messageHandler"
    /\ lastCall.notice = 3
    /\ currentMatch = "TO"
    /\ currentState = "PAUSED"
    /\ currentMatchTime = 60
    /\ currentFieldId = 1

\* C36: in every reachable state of the engine the running flag is true
\* exactly when the phase is one of TIMEOUT, AUTO, DRIVER, and false exactly
\* when the phase is unset, "DSBL" or "PAUSED".
C36_RunningIffTimedPhase ==
    /\ matchRunning <=> currentState \in {"TIMEOUT", "AUTO", "DRIVER"}
    /\ ~matchRunning <=> currentState \in {NULL, "DSBL", "PAUSED"}

\* a queued timeout was started on field 1 and is running
C36_Witness ==
    /\ matchRunning
    /\ currentState = "TIMEOUT"
    /\ currentMatch = "TO"
    /\ currentFieldId = 1
    /\ lastCall.op = "_messageHandler"
    /\ lastCall.notice = 1

\* C12: on every opened stream the handshake is the first frame transmitted:
\* an open socket has transmitted exactly one handshake, and no socket has
\* transmitted a request frame before its handshake or a second handshake.
C12_HandshakeFirstAndOnce ==
    \A s \in DOMAIN sockets :
        /\ ~sockets[s].early
        /\ sockets[s].handshakes <= 1
        /\ sockets[s].readyState = "OPEN" => sockets[s].handshakes = 1

(***************************************************************************)
(* SpecPure: the engine's pure functions, each applied to a drawn argument.*)
(***************************************************************************)
HarnessInputs ==
    {HarnessInput("_generateHandshake", now) : now \in ClockSample}
    \cup {HarnessInput("_buildMatchName", m) : m \in MatchSample}
    \cup {HarnessInput("_messageHandler",
                       [currentMatch |-> n, currentMatchTime |-> t, fieldId |-> 1]) :
              n \in NameSample, t \in TimeSample}

InitPure ==
    /\ codec = CodecOff
    /\ harness \in HarnessInputs
    /\ EngineConstructed
    /\ main = MainIdle
    /\ api = ApiIdle

NextPure ==
    \/ GenerateHandshake
    \/ BuildMatchName
    \/ MatchStartedNotice

SpecPure == InitPure /\ [][NextPure]_vars

(***************************************************************************)
(* Claims on the pure functions.                                           *)
(***************************************************************************)
\* C11: for every clock value t in 0..2^32-1 the handshake is 128 bytes, every
\* byte outside offsets 7..10 is zero, and the bytes at offsets 7..10 are t in
\* little-endian order (offset 7 the least significant byte).
C11_HandshakeEncodesTime ==
    (harness.fn = "_generateHandshake" /\ harness.pc = "returned") =>
        /\ Len(harness.result) = 128
        /\ \A i \in 1..128 : i \notin 8..11 => harness.result[i] = 0
        /\ harness.result[8] = harness.arg.lo % 256
        /\ harness.result[9] = harness.arg.lo \div 256
        /\ harness.result[10] = harness.arg.hi % 256
        /\ harness.result[11] = harness.arg.hi \div 256

\* C13: for every match identity (round, instance, match) _buildMatchName
\* returns "Q<match>" for QUAL, "<round> <instance>-<match>" for R128, R64,
\* R32, R16, QF, SF and F, "F <match>" for TOP_N, "P0" for PRACTICE, "TO" for
\* TIMEOUT, "D Skills" for SKILLS with instance 2 and "A Coding" for SKILLS
\* with any other instance, and "OTHER" for every other round.
C13_MatchNameTable ==
    (harness.fn = "_buildMatchName" /\ harness.pc = "returned") =>
        LET m == harness.arg
            name == harness.result
        IN  /\ m.round = "QUAL" => name = "Q" \o ToString(m.match)
            /\ m.round \in {"R128", "R64", "R32", "R16", "QF", "SF", "F"} =>
                  name = m.round \o " " \o ToString(m.instance) \o "-" \o ToString(m.match)
            /\ m.round = "TOP_N" => name = "F " \o ToString(m.match)
            /\ m.round = "PRACTICE" => name = "P0"
            /\ m.round = "TIMEOUT" => name = "TO"
            /\ (m.round = "SKILLS" /\ m.instance = 2) => name = "D Skills"
            /\ (m.round = "SKILLS" /\ m.instance # 2) => name = "A Coding"
            /\ m.round \notin {"QUAL", "R128", "R64", "R32", "R16", "QF", "SF", "F",
                                "TOP_N", "PRACTICE", "TIMEOUT", "SKILLS"} =>
                  name = "OTHER"

\* the second practice match has been named
C13_Witness ==
    /\ harness.fn = "_buildMatchName"
    /\ harness.pc = "returned"
    /\ harness.arg = [round |-> "PRACTICE", instance |-> 1, match |-> 2]
    /\ harness.result = "P0"

\* C14: on a match-started notice the phase stored is TIMEOUT when the match
\* name is "TO"; otherwise AUTO when the remaining time is 15, 14, 45 or 44;
\* otherwise, when it is 60 or 59, AUTO for "A Coding" and DRIVER for any other
\* name; otherwise DRIVER.  The placeholder "foo" is never stored.
C14_StartedPhase ==
    (harness.fn = "_messageHandler" /\ harness.pc = "returned") =>
        LET name == harness.arg.currentMatch
            remaining == harness.arg.currentMatchTime
            phase == harness.result.currentState
        IN  /\ phase # "foo"
            /\ name = "TO" => phase = "TIMEOUT"
            /\ (name # "TO" /\ remaining \in {15, 14, 45, 44}) => phase = "AUTO"
            /\ (name # "TO" /\ remaining \in {60, 59} /\ name = "A Coding") =>
                  phase = "AUTO"
            /\ (name # "TO" /\ remaining \in {60, 59} /\ name # "A Coding") =>
                  phase = "DRIVER"
            /\ (name # "TO" /\ remaining \notin {15, 14, 45, 44, 60, 59}) =>
                  phase = "DRIVER"

\* a timeout started with 15 seconds on the clock
C14_Witness ==
    /\ harness.fn = "_messageHandler"
    /\ harness.pc = "returned"
    /\ harness.arg.currentMatch = "TO"
    /\ harness.arg.currentMatchTime = 15
    /\ harness.result.currentState = "TIMEOUT"
    /\ harness.result.matchRunning

\* C20: every didReceiveGlobalSettings event discards the cached credential and
\* forces a reconnect: the stream of an earlier configuration is closed, and a
\* stream is created only after an authentication made with the newest
\* settings.  Every socket that is connecting or open belongs to the engine
\* constructed for the latest event, and was created with that engine's
\* fresh cookie.
C20_OnlyNewestSettingsConnect ==
    \A s \in DOMAIN sockets :
        sockets[s].readyState \in {"CONNECTING", "OPEN"} =>
            /\ sockets[s].owner = main.TM
            /\ cookie[main.TM] = "fresh"

\* the sockets that are connecting or open
LiveSockets == {s \in DOMAIN sockets : sockets[s].readyState \in {"CONNECTING", "OPEN"}}

\* the engines the plugin has called close() on: TM.close() is called on the
\* engine in TM before TM is replaced, and engines are numbered as constructed
ClosedEngines == {e \in Engines : e < main.TM}

\* C22: closing the engine cancels its in-flight connect and releases its
\* stream: an engine that close() was called on has no socket that is
\* connecting or open.
C22_CloseReleasesStream ==
    \A e \in ClosedEngines :
        websocket[e] # 0 => sockets[websocket[e]].readyState \in {"CLOSING", "CLOSED"}

\* C25: at most one server connection is live at any time: there is never
\* more than one socket that is connecting or open, and the live socket
\* belongs to the engine the plugin references in TM.
C25_OneLiveConnection ==
    /\ Cardinality(LiveSockets) <= 1
    /\ \A s \in LiveSockets : sockets[s].owner = main.TM

(***************************************************************************)
(* SpecInbound: the engine of SpecEngine with a server that also sends     *)
(* frames that do not decode.  Nothing runs once the process has ended.    *)
(***************************************************************************)
NextInbound ==
    \/ thrown # "ProcessExit" /\ NextEngine
    \/ \E s \in DOMAIN sockets : \E exits \in BOOLEAN : MalformedArrives(s, exits)

SpecInbound == InitEngine /\ [][NextInbound]_vars

\* C23: a malformed or undecodable inbound frame is dropped as a single
\* message: it changes no field of the engine state, no change notification
\* is emitted for it, and the stream it came on (like every other socket and
\* every suspended call) is as it was, so that later notices are processed.
C23_MalformedDropped ==
    [][(lastCall'.op = "_messageHandler" /\ lastCall'.notice = Undecodable.id) =>
          /\ UNCHANGED matchVars
          /\ emitted' = <<>>
          /\ thrown' # "ProcessExit"
          /\ UNCHANGED <<sockets, tasks>>]_vars

(***************************************************************************)
(* SpecFaults: the plugin main of SpecMain with a server that may also     *)
(* refuse the socket.  Nothing runs once the process has ended.            *)
(***************************************************************************)
NextFaults ==
    \/ thrown # "ProcessExit" /\ NextMain
    \/ \E s \in DOMAIN sockets : ConnectFails(s)

SpecFaults == InitEngine /\ [][NextFaults]_vars

\* C24: a failure to establish the stream is treated like an authentication
\* failure: the engine goes on (the process does not end), tm_conn_established
\* is not true, and a handler is in its catch path, having counted the
\* failure, raised its alerts and started the delay before the retry.
C24_ConnectErrorRetried ==
    lastCall.op = "error" =>
        /\ thrown # "ProcessExit"
        /\ ~main.tm_conn_established
        /\ \E h \in DOMAIN main.handlers :
              /\ main.handlers[h].pc = "delay"
              /\ main.handlers[h].failures >= 1

(***************************************************************************)
(* SpecReconnect: the plugin main with a Stream Deck software that sends   *)
(* didReceiveGlobalSettings once at the start and once in answer to every  *)
(* getGlobalSettings, and a server that may close an open socket and may   *)
(* refuse a login, each only while the bounds leave room for the attempt   *)
(* that follows.  Every step of the plugin and every answer it waits for   *)
(* eventually happens.                                                     *)
(***************************************************************************)
SettingsArrive ==
    /\ Len(main.handlers) < 1 + main.getGlobalSettings
    /\ DidReceiveGlobalSettings

ServerCloses(s) ==
    /\ sockets[s].readyState = "OPEN"
    /\ Len(sockets) < MaxSockets
    /\ Len(main.handlers) < MaxHandlers
    /\ main.engines < MaxEngines
    /\ SocketClosed(s)

LoginRefused(i) ==
    /\ main.engines < MaxEngines
    /\ AuthFail(i)

NextReconnect ==
    \/ SettingsArrive
    \/ \E i \in DOMAIN tasks : AuthDone(i)
    \/ \E i \in DOMAIN tasks : LoginRefused(i)
    \/ \E i \in DOMAIN tasks : LoadDone(i)
    \/ \E h \in DOMAIN main.handlers : DelayDone(h)
    \/ \E s \in DOMAIN sockets : SocketOpen(s)
    \/ \E s \in DOMAIN sockets : ServerCloses(s)
    \/ \E c \in Contexts : WillAppear(c)
    \/ \E c \in Contexts : WillDisappear(c)

SpecReconnect ==
    /\ InitEngine
    /\ [][NextReconnect]_vars
    /\ WF_vars(SettingsArrive)
    /\ WF_vars(\E i \in DOMAIN tasks : AuthDone(i))
    /\ WF_vars(\E i \in DOMAIN tasks : LoadDone(i))
    /\ WF_vars(\E h \in DOMAIN main.handlers : DelayDone(h))
    /\ WF_vars(\E s \in DOMAIN sockets : SocketOpen(s))

\* the stream the plugin uses is open, and the plugin knows it is connected
Connected ==
    /\ main.tm_conn_established
    /\ main.TM # 0
    /\ websocket[main.TM] # 0
    /\ sockets[websocket[main.TM]].readyState = "OPEN"

ClosedSockets == {s \in DOMAIN sockets : sockets[s].readyState = "CLOSED"}

NextSession ==
    \/ InitCall(1)
    \/ \E i \in DOMAIN tasks : AuthDone(i)
    \/ \E i \in DOMAIN tasks : AuthFail(i)
    \/ \E i \in DOMAIN tasks : LoadDone(i)
    \/ \E s \in DOMAIN sockets : SocketOpen(s)
    \/ \E s \in DOMAIN sockets : SocketClosed(s)
    \/ CookieExpires(1)
    \/ Len(tasks) < MaxTasks /\ ResetTimer(1)

SpecSession == InitEngine /\ [][NextSession]_vars

(***************************************************************************)
(* Claims on _connectWebsocket: the freshness check and the force flag.    *)
(***************************************************************************)
\* the calls of _connectWebsocket that are suspended after this step and were
\* not suspended at that place before it
Arrived(pc) ==
    {i \in DOMAIN tasks' :
        /\ tasks'[i].pc = pc
        /\ \A j \in DOMAIN tasks : tasks[j] # tasks'[i]}

\* C32: whenever a stream is created, its engine holds a session cookie, and
\* the call that creates it passed the freshness check or re-authenticated:
\* a call goes on to create a stream only with a cookie that is fresh at that
\* moment, either found fresh by the check or just obtained by the
\* _authenticate the call waited for; a call that finds the cookie absent or
\* expired waits in _authenticate; and a frame is handed to a socket only in
\* a turn whose check found the cookie fresh, or by a call that waited.
C32_FreshnessChecked ==
    [][/\ Len(sockets') > Len(sockets) =>
             \E i \in DOMAIN tasks :
                 /\ tasks[i].pc = "load"
                 /\ tasks' = RemoveAt(tasks, i)
                 /\ sockets'[Len(sockets')].owner = tasks[i].eng
                 /\ cookie[tasks[i].eng] # "none"
       /\ \A i \in Arrived("load") :
             /\ cookie'[tasks'[i].eng] = "fresh"
             /\ IF tasks'[i].found = "fresh"
                THEN cookie[tasks'[i].eng] = "fresh"
                ELSE \E j \in DOMAIN tasks : tasks[j] = [tasks'[i] EXCEPT !.pc = "auth"]
       /\ \A i \in Arrived("auth") :
             /\ tasks'[i].found = cookie[tasks'[i].eng]
             /\ cookie[tasks'[i].eng] # "fresh"
       /\ wire' # <<>> =>
             \/ Len(tasks') < Len(tasks)
             \/ \A i \in DOMAIN wire' : cookie[sockets[wire'[i].sock].owner] = "fresh"
      ]_vars

\* a command found the cookie expired, waited for _authenticate and
\* protobuf.load, and its frame was handed to the stream created for it under
\* the new cookie
C32_Witness ==
    /\ Len(wire) = 1
    /\ wire[1].kind = "request"
    /\ wire[1].found = "expired"
    /\ wire[1].sock = 2
    /\ Len(sockets) = 2
    /\ sockets[2].readyState = "CONNECTING"
    /\ websocket[1] = 2
    /\ cookie[1] = "fresh"

\* C33: _connectWebsocket(true) closes the existing stream, if any, and
\* creates a new one whatever it found: when a forced call goes on to
\* protobuf.load, the socket the engine held has been told to close and
\* this.websocket is cleared, and when the load returns a new socket is
\* created and stored.  _connectWebsocket(false), as a command's _send calls
\* it, with a stream held and the cookie fresh, creates no socket, closes
\* none and suspends nothing.
C33_ForceRecreates ==
    [][/\ \A i \in Arrived("load") :
             tasks'[i].force =>
                 /\ websocket'[tasks'[i].eng] = 0
                 /\ websocket[tasks'[i].eng] # 0 =>
                       sockets'[websocket[tasks'[i].eng]].readyState \in {"CLOSING", "CLOSED"}
       /\ \A i \in DOMAIN tasks :
             (tasks[i].force /\ tasks[i].pc = "load" /\ tasks' = RemoveAt(tasks, i)) =>
                 /\ Len(sockets') = Len(sockets) + 1
                 /\ sockets'[Len(sockets')] = NewSocket(tasks[i].eng)
                 /\ websocket'[tasks[i].eng] = Len(sockets')
       /\ (/\ lastCall'.op \in FacadeOps
           /\ lastCall'.frames # <<>>
           /\ cookie[1] = "fresh"
           /\ websocket[1] # 0) =>
                 /\ Len(sockets') = Len(sockets)
                 /\ \A s \in DOMAIN sockets : sockets'[s].readyState = sockets[s].readyState
                 /\ UNCHANGED <<tasks, websocket>>
      ]_vars

\* init() was called on an engine whose stream was open and whose cookie was
\* fresh: the stream is closing, this.websocket is cleared, and the call
\* waits in protobuf.load
C33_Witness ==
    /\ Len(tasks) = 1
    /\ tasks[1].force
    /\ tasks[1].pc = "load"
    /\ tasks[1].found = "fresh"
    /\ websocket[1] = 0
    /\ Len(sockets) = 1
    /\ sockets[1].readyState = "CLOSING"
    /\ sockets[1].handshakes = 1

(***************************************************************************)
(* The select-display actions of the cookie-authenticated plugin main.     *)
(* json.payload.settings.selected_display is a display number, or          *)
(* NoDisplay when the settings carry none.                                 *)
(***************************************************************************)
\* JSON.stringify of a stored display
Stringify(d) == IF d = NoDisplay THEN UNDEFINED ELSE ToString(d)

\* willAppear of a select_display action: actions.push(...), then
\* selectedDisplays[context] = selectedDisplays[context] ? selected_display : 2
WillAppearDisplay(c, selected_display) ==
    /\ \A i \in DOMAIN main.actions : main.actions[i] # c
    /\ main' = [main EXCEPT
          !.actions = Append(@, c),
          !.selectedDisplays[c] = IF @ # NoDisplay THEN selected_display
                                  ELSE DefaultDisplay]
    /\ lastCall' = [NoCall EXCEPT !.op = "willAppear", !.settings = selected_display]
    /\ wire' = <<>>
    /\ emitted' = <<>>
    /\ thrown' = "none"
    /\ startPair' = startPair
    /\ UNCHANGED <<connVars, matchVars, cbVars, codecVars, api>>

\* willDisappear of a select_display action: the action is removed and
\* delete selectedDisplays[context]
WillDisappearDisplay(c) ==
    /\ \E i \in DOMAIN main.actions :
          /\ main.actions[i] = c
          /\ main' = [main EXCEPT !.actions = RemoveAt(@, i),
                                   !.selectedDisplays[c] = NoDisplay]
    /\ ObserveQuiet
    /\ UNCHANGED <<connVars, matchVars, cbVars, codecVars, api>>

\* didReceiveSettings of a select_display action:
\* selectedDisplays[context] = selected_display
DidReceiveSettings(c, selected_display) ==
    /\ main' = [main EXCEPT !.selectedDisplays[c] = selected_display]
    /\ ObserveQuiet
    /\ UNCHANGED <<connVars, matchVars, cbVars, codecVars, api>>

\* keyDown on a select_display action:
\* TM.selectDisplay(JSON.stringify(selectedDisplays[context])) if tm_conn_established
KeyDownDisplay(c) ==
    IF main.tm_conn_established
    THEN SelectDisplay(main.TM, Stringify(main.selectedDisplays[c]))
    ELSE KeyDownIgnored

(***************************************************************************)
(* SpecDisplay: the cookie-authenticated plugin main with select-display   *)
(* actions appearing, disappearing, receiving settings and being pressed,  *)
(* and a server that accepts the login.                                    *)
(***************************************************************************)
NextDisplay ==
    \/ DidReceiveGlobalSettings
    \/ \E i \in DOMAIN tasks : AuthDone(i)
    \/ \E i \in DOMAIN tasks : LoadDone(i)
    \/ \E c \in DisplayContexts : \E d \in Displays \cup {NoDisplay} : WillAppearDisplay(c, d)
    \/ \E c \in DisplayContexts : WillDisappearDisplay(c)
    \/ \E c \in DisplayContexts : \E d \in Displays \cup {NoDisplay} : DidReceiveSettings(c, d)
    \/ \E c \in DisplayContexts : KeyDownDisplay(c)

SpecDisplay == InitEngine /\ [][NextDisplay]_vars

\* C35: on willAppear of a select-display action the display stored for its
\* context is the selected_display of the action's settings when the settings
\* carry one, and the default display otherwise; and a keyDown dispatched on
\* the action calls selectDisplay with the display stored for its context.
C35_StoredDisplay ==
    [][/\ lastCall'.op = "willAppear" =>
             \A c \in DisplayContexts :
                 main'.actions = Append(main.actions, c) =>
                     main'.selectedDisplays[c] =
                         IF lastCall'.settings # NoDisplay THEN lastCall'.settings
                         ELSE DefaultDisplay
       /\ lastCall'.op = "selectDisplay" =>
             \E c \in DisplayContexts :
                 lastCall'.display = Stringify(main.selectedDisplays[c])
      ]_vars

(***************************************************************************)
(* Claims on the keyDown handler of the cookie-authenticated plugin main.  *)
(***************************************************************************)
\* C34: while tm_conn_established is false, a keyDown event sends no command
\* to the server and changes no engine state: nothing is handed to a socket,
\* no call is suspended, and the connection fields, the match state and the
\* callbacks of every engine are as they were; and a key press reaches the
\* facade only in a state where tm_conn_established is true.
C34_KeyDownIgnoredWhileDown ==
    [][/\ (KeyDown /\ ~main.tm_conn_established) =>
             /\ wire' = <<>>
             /\ lastCall'.msgs = <<>>
             /\ UNCHANGED <<connVars, matchVars, cbVars, main>>
       /\ lastCall'.op \in FacadeOps => main.tm_conn_established
       /\ lastCall'.op = "keyDown" => ~main.tm_conn_established
      ]_vars

\* a key was pressed while a settings handler was in its retry loop, after a
\* failed attempt: nothing was sent, the retry's login is still all that is
\* in flight
C34_Witness ==
    /\ lastCall = Ignored
    /\ ~main.tm_conn_established
    /\ Len(main.handlers) = 1
    /\ main.handlers[1].pc = "init"
    /\ main.handlers[1].failures = 1
    /\ main.TM = 2
    /\ Len(tasks) = 1
    /\ tasks[1].pc = "auth"
    /\ wire = <<>>

(***************************************************************************)
(* Claims on sends that wait for the connection.                           *)
(***************************************************************************)
\* the _send calls of command frames that wait in _authenticate
SendsAuthenticating ==
    {i \in DOMAIN tasks :
        tasks[i].kind = "send" /\ tasks[i].data.kind = "request" /\ tasks[i].pc = "auth"}

\* C37: when a command issues two sends back to back while the cookie is
\* absent or expired (queueDrivingSkills, queueProgrammingSkills), the engine
\* performs one authentication for the pair: at most one of the two sends
\* waits in an _authenticate of its own (each such call, when it returns,
\* closes the engine's socket and creates a new one).
C37_OneAuthenticationPerPair ==
    (/\ lastCall.op \in {"queueDrivingSkills", "queueProgrammingSkills"}
     /\ Len(lastCall.frames) = 2
     /\ cookie[1] # "fresh")
        => Cardinality(SendsAuthenticating) <= 1

\* the _send calls of command frames that are suspended in _connectWebsocket
SendsWaiting ==
    {i \in DOMAIN tasks : tasks[i].kind = "send" /\ tasks[i].data.kind = "request"}

\* C39: command frames reach the stream in the order in which the commands
\* were issued: no command frame is transmitted on an open socket while the
\* frame of a command issued before it is still waiting for its
\* _connectWebsocket to return.
C39_NoOvertaking ==
    \A i \in DOMAIN wire :
        (wire[i].kind = "request" /\ wire[i].readyState = "OPEN") => SendsWaiting = {}

(***************************************************************************)
(* Claims on the settings handler and the close callback.                  *)
(***************************************************************************)
\* C38: a configuration event received while a stream is open leads to one
\* reconnect and then quiescence: when the stream of the engine the handler
\* replaced (a stream that had opened and sent its handshake, closed by the
\* handler's TM.close()) has finished closing, no
\* getGlobalSettings event is sent, so that no further settings event and no
\* further reconnect follows from it.
C38_OwnCloseAsksNoSettings ==
    [][\A s \in DOMAIN sockets :
          (/\ sockets[s].owner \in ClosedEngines
           /\ sockets[s].handshakes = 1
           /\ sockets[s].readyState = "CLOSING"
           /\ sockets'[s].readyState = "CLOSED")
              => main'.getGlobalSettings = main.getGlobalSettings]_vars

(***************************************************************************)
(* Claims on key presses that arrive while a settings handler is           *)
(* suspended.                                                              *)
(***************************************************************************)
\* C40: in every state in which a keyDown event is dispatched to a command
\* (tm_conn_established is true), the object the command is invoked on exists
\* and is connected: in the API-key main tm_fs is set and tm_fs.connect() has
\* returned, and in the cookie-authenticated main the stream of the engine in
\* TM is open.
C40_DispatchFindsConnection ==
    /\ api.tm_conn_established => (api.tm_fs /\ api.tm_fs_conn)
    /\ main.tm_conn_established => Connected

====
